---- MODULE Spec2Model ----
(***************************************************************************)
(* Content-generation scheduler of programming-books.io: buildServer, the  *)
(* per-book builder goroutines started by genBookHandler, the sitemap      *)
(* goroutine, the two WaitGroup barriers, the booksSem slot limiter, the   *)
(* per-book mutex mu, and the flows genToDir, previewToInsantPreview and   *)
(* previewWebsite that consume the server.                                 *)
(***************************************************************************)
EXTENDS Integers, Sequences, FiniteSets, TLC

\* ------------------------------------------------------------------ bounds
NumBooks == 2        \* len(booksToProcess)
NumCPU == 1          \* runtime.NumCPU(), the capacity of booksSem
MaxArticles == 1     \* articles of the chapter of the first book

Books == 1..NumBooks

\* ------------------------------------------------------------ book inputs
siteBaseURL == "https://www.programming-books.io"

DirShort(b) == "b" \o ToString(b)

CoverImageName(b) == "c" \o ToString(b) \o ".png"

\* Book.URL
URL(b) == "/essential/" \o DirShort(b) \o "/"

\* Book.CoverURL, Book.CoverSmallURL, Book.CoverTwitterFullURL without host
CoverURL(b) == "/covers/" \o CoverImageName(b)

CoverSmallURL(b) == "/covers_small/" \o CoverImageName(b)

CoverTwitterURL(b) == "/covers/twitter/" \o CoverImageName(b)

\* path.Join(baseURL, name): Join cleans the result, baseURL ends in "/"
indexURL(b) == URL(b) \o "index.html"

book404URL(b) == URL(b) \o "404.html"

overviewURL(b) == URL(b) \o "overview.html"

FixedURLs(b) == {indexURL(b), book404URL(b), overviewURL(b)}

\* strings.HasPrefix / strings.HasSuffix
HasPrefix(s, pre) == Len(s) >= Len(pre) /\ SubSeq(s, 1, Len(pre)) = pre

HasSuffix(s, suf) ==
    Len(s) >= Len(suf) /\ SubSeq(s, Len(s) - Len(suf) + 1, Len(s)) = suf

isFullURL(uri) == HasPrefix(uri, "https://") \/ HasPrefix(uri, "http://")

\* urlJoin(base, uri): one "/" between the two parts
urlJoin(base, uri) ==
    IF HasPrefix(uri, "/") THEN base \o uri ELSE base \o "/" \o uri

\* the key addSitemapURL stores in b.sitemapURLS
SitemapKey(uri) == IF isFullURL(uri) THEN uri ELSE urlJoin(siteBaseURL, uri)

\* ".html" appended to every URL
ensureHTMLSuffix_Always(s) == s \o ".html"

ensureHTMLSuffix(s) == IF HasSuffix(s, ".html") THEN s ELSE s \o ".html"

\* The page tree of book b: RootPage.Pages is one chapter; the chapter of the
\* first book has MaxArticles articles.  A page is [book, name, images].
Chapter(b) == [book |-> b, name |-> "ch", images |-> {"i.png"}]

ChapterPages(b) ==
    IF b = 1
    THEN [k \in 1..MaxArticles |->
            [book |-> b, name |-> "a" \o ToString(k) \o ".html", images |-> {}]]
    ELSE << >>

\* the order in which the addPage loop visits the pages of the book
PageList(b) == <<Chapter(b)>> \o ChapterPages(b)

\* Page.URL, Page.CanonnicalURL, Page.ImageURL
PageURL(p) == URL(p.book) \o p.name

PageCanonnicalURL(p) == urlJoin(siteBaseURL, PageURL(p))

PageImageURL(p, img) == URL(p.book) \o p.name \o "-" \o img

PageURIs(b) ==
    {ensureHTMLSuffix(PageURL(PageList(b)[i])) : i \in 1..Len(PageList(b))}

ImageURIs(b) ==
    UNION {{PageImageURL(PageList(b)[i], img) : img \in PageList(b)[i].images}
             : i \in 1..Len(PageList(b))}

\* filepath.Join(book.NotionCacheDir, "img"), NotionCacheDir set by initBook
NotionImgDir(b) == "books/" \o DirShort(b) \o "/cache/notion/img"

\* ------------------------------------------------------------------- disk
\* Files below the directories the directory-mirroring handlers serve.
DiskFiles ==
    UNION {{[dir |-> "covers", rel |-> CoverImageName(b)],
            [dir |-> "covers", rel |-> "twitter/" \o CoverImageName(b)],
            [dir |-> "covers_small", rel |-> CoverImageName(b)],
            [dir |-> NotionImgDir(b), rel |-> "n.png"]} : b \in Books}

\* NewDirHandler(dir, urlPrefix, nil).URLS(): walks dir at call time
DirHandlerURLS(dir, prefix) ==
    {(IF HasSuffix(prefix, "/") THEN prefix ELSE prefix \o "/") \o f.rel
        : f \in {g \in DiskFiles : g.dir = dir}}

\* -------------------------------------------------------- server handlers
H(kind, b) == [kind |-> kind, book |-> b]

StaticH == H("static", 0)

CoversH == H("covers", 0)

CoversSmallH == H("covers_small", 0)

TopH == H("top", 0)

SitemapH == H("sitemap", 0)

BookH(b) == H("book", b)


SitemapHandlerURLS == {"/robots.txt", "/sitemap.txt"}

\* genBooksIndex without its last append: the top-level pages handler is lost
genBooksIndex_NoTop == <<CoversH, CoversSmallH>>

\* res of genBooksIndex
genBooksIndex == <<CoversH, CoversSmallH, TopH>>

\* ----------------------------------------------------------------- slices
\* A Go slice is a header [arr, len] over a backing array; arrays[a] is the
\* backing array a, as long as its capacity, H("nil", 0) where nothing was written.
\* growslice for small slices: double, or the needed length when larger
GrowCap(old, needed) == IF needed > 2 * old THEN needed ELSE 2 * old

\* append(hdr, elems...): writes in place when the capacity suffices,
\* otherwise copies into a fresh backing array.  Returns [arrays, hdr].
AppendSlice(arrs, hdr, elems) ==
    LET need == hdr.len + Len(elems)
        old  == arrs[hdr.arr]
    IN  IF need <= Len(old)
        THEN [arrays |-> [arrs EXCEPT ![hdr.arr] =
                            [i \in 1..Len(old) |->
                               IF i > hdr.len /\ i <= need
                               THEN elems[i - hdr.len] ELSE old[i]]],
              hdr |-> [arr |-> hdr.arr, len |-> need]]
        ELSE LET newcap == GrowCap(Len(old), need)
                 fresh  == [i \in 1..newcap |->
                              IF i <= hdr.len THEN old[i]
                              ELSE IF i <= need THEN elems[i - hdr.len]
                              ELSE H("nil", 0)]
             IN [arrays |-> Append(arrs, fresh),
                 hdr |-> [arr |-> Len(arrs) + 1, len |-> need]]

NilSlice == [arr |-> 0, len |-> 0]

\* ------------------------------------------------------------------ state
VARIABLES
    flow,        \* the driver that runs: "export" (genToDir or
                 \* previewToInsantPreview) or "previewWebsite"
    pcMain,      \* position of the driver goroutine
    loopI,       \* index of the book the buildServer loop works on
    enumI,       \* index of the handler the driver enumerates
    arrays,      \* backing arrays of the handlers slice
    handlers,    \* the variable handlers of buildServer (slice header)
    mainHdr,     \* header the driver read for its pending append
    server,      \* server.Handlers (slice header), NilSlice before
    booksWg,     \* counter of booksWg
    serverWg,    \* counter of serverWg
    booksSem,    \* number of values in the channel booksSem
    pcSm,        \* position of the sitemap goroutine
    smK,         \* index of the book genSitemapHandler works on
    smHdr,       \* header the sitemap goroutine read for its append
    pcB,         \* position of each book builder goroutine
    failed,      \* the builder goroutine of the book is panicking
    pageI,       \* index into PageList of the addPage loop
    mu,          \* owner of each book's mutex mu, "none" when unlocked
    bookHandlers,\* the closure variable handlers of each genBookHandler
    pages,       \* the closure variable pages of each genBookHandler
    files,       \* uri -> path map of each book's filesHandler
    sitemapURLS, \* b.sitemapURLS
    pcHttp,      \* position of the HTTP request being served
    req,         \* the book whose handler the HTTP side is calling, 0 if none
    crashed      \* the process died of an unrecovered panic

VARIABLES
    pcLog,       \* position of the readiness logger goroutine of previewWebsite
    logI         \* index of the handler the readiness logger enumerates

logVars == <<pcLog, logI>>

VARIABLES
    expURIs,     \* the URIs server.IterContent hands to writeFile, in order
    pcDir,       \* position of WriteServerFilesToDir
    dirI,        \* index into expURIs of its next writeFile call
    disk,        \* the files below dir: [path, data]
    dirCreated,  \* its map dirCreated, as the set of keys
    mkdirCalls,  \* the directories it called os.MkdirAll with, in order
    dirFailed,   \* the indices of expURIs whose MkdirAll or WriteFile failed
    dirStats,    \* its results [nFiles, totalSize]
    pcZip,       \* position of WriteServerFilesToZip
    zipI,        \* index into expURIs of its next writeFile call
    zipEntries,  \* the entries of the archive: [name, data], in order
    zipFailed,   \* the indices of expURIs whose zipWriteFile failed
    zipBuf,      \* what reached buf: the entries ended and the central directory
    zipErr,      \* its variable err: 0 for nil, else the index that failed
    zipResult    \* what it returned: "bytes", "nil" or "none" before

dirVars == <<pcDir, dirI, disk, dirCreated, mkdirCalls, dirFailed, dirStats>>

zipVars == <<pcZip, zipI, zipEntries, zipBuf, zipFailed, zipErr, zipResult>>

expVars == <<expURIs, dirVars, zipVars>>

\* one request at the live server, from mainHandler's entry to its return
VARIABLES
    pcReq,       \* position of mainHandler
    rqURI,       \* r.URL.Path
    rqServe,     \* the source of the producer FindHandler returned, or "nil"
    rqFail,      \* how handling failed: "none", "panic" or "render"
    wire,        \* the status code sent to the client, 0 before any
    hdrWrites,   \* the calls that set a status code on w
    rqLogged,    \* the status code given to logHTTPReq, 0 before
    failLogged,  \* the failure has been logged
    invoked,     \* the producer has been called
    reraised,    \* the deferred function has re-raised the panic
    history,     \* the requests answered: [status, fail], in order
    rqBody,      \* the bytes the producer of the request has written
    bodyHTML     \* page.BodyHTML of the page registered under a URI

reqVars == <<pcReq, rqURI, rqServe, rqFail, wire, hdrWrites, rqLogged,
             failLogged, invoked, reraised, history, rqBody, bodyHTML>>

\* the state of the flows modelled further below
\* StartHTTPServer: the serving goroutine and the function it returns
VARIABLES
    pcListen,        \* the goroutine around ListenAndServe
    pcWaitFn,        \* the returned function
    pcShutdown,      \* the goroutine around httpSrv.Shutdown
    accepting,       \* the listener is open
    chServerClosed,  \* the values in the channel (capacity 1)
    timerFired,      \* time.After(5 s) has delivered
    atReturn         \* what held when the returned function returned

sdVars == <<pcListen, pcWaitFn, pcShutdown, accepting, chServerClosed,
            timerFired, atReturn>>

\* genSitemapHandler run on its own
VARIABLES
    pcTxt,       \* position of genSitemapHandler
    txtBooks,    \* its argument books
    txtK,        \* index of the book of the loop
    txtURLs,     \* its slice urls
    sitemapTxt   \* the content registered for /sitemap.txt

txtVars == <<pcTxt, txtBooks, txtK, txtURLs, sitemapTxt>>

\* Book.GetAllPages on the page structure of one book; a page is a number,
\* the root page is RootPage, 0 stands for nil
VARIABLES
    pcGap,       \* position of GetAllPages
    pagePages,   \* page.Pages of every page
    pageParent,  \* page.Parent of every page
    allPages,    \* its slice pages
    curr,        \* its index curr
    seen         \* its map seen, as the set of keys

gapVars == <<pcGap, pagePages, pageParent, allPages, curr, seen>>

extVars == <<logVars, expVars, reqVars, sdVars, txtVars, gapVars>>

\* ... before any of these flows has started
LogInit ==
    /\ pcLog = "idle"
    /\ logI = 0

ExpInit ==
    /\ expURIs = << >>
    /\ pcDir = "idle"
    /\ dirI = 0
    /\ disk = {}
    /\ dirCreated = {}
    /\ mkdirCalls = << >>
    /\ dirFailed = {}
    /\ dirStats = [nFiles |-> 0, totalSize |-> 0]
    /\ pcZip = "idle"
    /\ zipI = 0
    /\ zipEntries = << >>
    /\ zipBuf = [files |-> << >>, directory |-> << >>]
    /\ zipFailed = {}
    /\ zipErr = 0
    /\ zipResult = "none"

ReqInit ==
    /\ pcReq = "idle"
    /\ rqURI = ""
    /\ rqServe = "nil"
    /\ rqFail = "none"
    /\ wire = 0
    /\ hdrWrites = 0
    /\ rqLogged = 0
    /\ failLogged = FALSE
    /\ invoked = FALSE
    /\ reraised = FALSE
    /\ history = << >>
    /\ rqBody = ""
    /\ bodyHTML = [b \in Books |-> [u \in PageURIs(b) |-> ""]]

SdInit ==
    /\ pcListen = "idle"
    /\ pcWaitFn = "idle"
    /\ pcShutdown = "idle"
    /\ accepting = FALSE
    /\ chServerClosed = 0
    /\ timerFired = FALSE
    /\ atReturn = [returned |-> FALSE]

TxtInit ==
    /\ pcTxt = "idle"
    /\ txtBooks = << >>
    /\ txtK = 0
    /\ txtURLs = << >>
    /\ sitemapTxt = ""

GapInit ==
    /\ pcGap = "idle"
    /\ pagePages = << >>
    /\ pageParent = << >>
    /\ allPages = << >>
    /\ curr = 0
    /\ seen = {}

ExtInit ==
    /\ LogInit
    /\ ExpInit
    /\ ReqInit
    /\ SdInit
    /\ TxtInit
    /\ GapInit

vars == <<flow, pcMain, loopI, enumI, arrays, handlers, mainHdr, server,
          booksWg, serverWg, booksSem, pcSm, smK, smHdr, pcB, failed,
          pageI, mu, bookHandlers, pages, files, sitemapURLS, pcHttp, req,
          crashed, extVars>>

mainVars == <<flow, pcMain, loopI, enumI, mainHdr, server>>

smVars == <<pcSm, smK, smHdr>>

builderVars == <<pcB, failed, pageI>>

httpVars == <<pcHttp, req>>

Init ==
    /\ flow = "none"
    /\ pcMain = "start"
    /\ loopI = 0
    /\ enumI = 0
    /\ arrays = << >>
    /\ handlers = NilSlice
    /\ mainHdr = NilSlice
    /\ server = NilSlice
    /\ booksWg = 0
    /\ serverWg = 0
    /\ booksSem = 0
    /\ pcSm = "idle"
    /\ smK = 0
    /\ smHdr = NilSlice
    /\ pcB = [b \in Books |-> "idle"]
    /\ failed = [b \in Books |-> FALSE]
    /\ pageI = [b \in Books |-> 0]
    /\ mu = [b \in Books |-> "none"]
    /\ bookHandlers = [b \in Books |-> << >>]
    /\ pages = [b \in Books |-> << >>]
    /\ files = [b \in Books |-> {}]
    /\ sitemapURLS = [b \in Books |-> {}]
    /\ pcHttp = "idle"
    /\ req = 0
    /\ crashed = FALSE
    /\ ExtInit

Alive == ~crashed

\* ------------------------------------------------- a book's dynamic handler
\* URLS() of a handler nested in the book's handler list
NestedURLS(b, h) ==
    CASE h = "files"  -> files[b]
      [] h = "imgdir" -> DirHandlerURLS(NotionImgDir(b), URL(b) \o "img")
      [] h = "toc"    -> {URL(b) \o "toc_search.js"}

\* getURLs starting from an empty list instead of the three fixed URIs
getURLs_NoFixed(b) ==
    DOMAIN pages[b]
      \cup UNION {NestedURLS(b, bookHandlers[b][i]) : i \in 1..Len(bookHandlers[b])}

\* the closure getURLs, evaluated with mu held; the list as a set
getURLs(b) ==
    FixedURLs(b) \cup DOMAIN pages[b]
      \cup UNION {NestedURLS(b, bookHandlers[b][i]) : i \in 1..Len(bookHandlers[b])}

\* get probing the nested handlers from the last added to the first
get_LastNested(b, uri) ==
    IF uri \in FixedURLs(b) THEN "fixed"
    ELSE IF uri \in DOMAIN pages[b] THEN "page"
    ELSE LET hit == {i \in 1..Len(bookHandlers[b]) :
                       uri \in NestedURLS(b, bookHandlers[b][i])}
         IN IF hit = {} THEN "nil"
            ELSE bookHandlers[b][CHOOSE i \in hit : \A j \in hit : i >= j]

\* the closure get, evaluated with mu held: the source of the producer it
\* returns, "nil" when it returns nil
get(b, uri) ==
    IF uri \in FixedURLs(b) THEN "fixed"
    ELSE IF uri \in DOMAIN pages[b] THEN "page"
    ELSE LET hit == {i \in 1..Len(bookHandlers[b]) :
                       uri \in NestedURLS(b, bookHandlers[b][i])}
         IN IF hit = {} THEN "nil"
            ELSE bookHandlers[b][CHOOSE i \in hit : \A j \in hit : i <= j]

\* mu.Lock() by who: blocks while the mutex is held
muLock(b, who) ==
    /\ mu[b] = "none"
    /\ mu' = [mu EXCEPT ![b] = who]

muUnlock(b) == mu' = [mu EXCEPT ![b] = "none"]

\* ------------------------------------------------------------- the driver
\* genToDir and previewToInsantPreview up to their call of buildServer: the
\* two functions differ only in the exporter they call at the end
StartExport ==
    /\ Alive /\ pcMain = "start"
    /\ flow' = "export"
    /\ pcMain' = "bs_files"
    /\ UNCHANGED <<loopI, enumI, arrays, handlers, mainHdr, server, booksWg,
                   serverWg, booksSem, smVars, builderVars, mu, bookHandlers,
                   pages, files, sitemapURLS, httpVars, crashed, extVars>>

\* previewWebsite up to its call of buildServer
previewWebsite ==
    /\ Alive /\ pcMain = "start"
    /\ flow' = "previewWebsite"
    /\ pcMain' = "bs_files"
    /\ UNCHANGED <<loopI, enumI, arrays, handlers, mainHdr, server, booksWg,
                   serverWg, booksSem, smVars, builderVars, mu, bookHandlers,
                   pages, files, sitemapURLS, httpVars, crashed, extVars>>

\* buildServer up to handlers := []Handler{filesHandler}: initBook of every
\* book, initBookHandlers, the static files handler
BuildServerFiles ==
    /\ Alive /\ pcMain = "bs_files"
    /\ sitemapURLS' = [b \in Books |-> {}]
    /\ booksSem' = 0
    /\ arrays' = << <<StaticH>> >>
    /\ handlers' = [arr |-> 1, len |-> 1]
    /\ pcMain' = "bs_index"
    /\ UNCHANGED <<flow, loopI, enumI, mainHdr, server, booksWg, serverWg,
                   smVars, builderVars, mu, bookHandlers, pages, files,
                   httpVars, crashed, extVars>>

\* handlers = append(handlers, genBooksIndex(allBooks)...)
BuildServerIndex ==
    /\ Alive /\ pcMain = "bs_index"
    /\ LET r == AppendSlice(arrays, handlers, genBooksIndex)
       IN /\ arrays' = r.arrays
          /\ handlers' = r.hdr
    /\ pcMain' = "bs_spawn"
    /\ UNCHANGED <<flow, loopI, enumI, mainHdr, server, booksWg, serverWg,
                   booksSem, smVars, builderVars, mu, bookHandlers, pages,
                   files, sitemapURLS, httpVars, crashed, extVars>>

\* serverWg.Add(1); go func() { waitBooksDone() ... }()
BuildServerSpawnSitemap ==
    /\ Alive /\ pcMain = "bs_spawn"
    /\ serverWg' = serverWg + 1
    /\ pcSm' = "wait"
    /\ loopI' = 1
    /\ pcMain' = "gb"
    /\ UNCHANGED <<flow, enumI, arrays, handlers, mainHdr, server, booksWg,
                   booksSem, smK, smHdr, builderVars, mu,
                   bookHandlers, pages, files, sitemapURLS, httpVars,
                   crashed, extVars>>

\* genBookHandler(book): addHandler(filesHandler) on the still private mu,
\* booksWg.Add(1), go func() { ... }(), return NewDynamicHandler(get, getURLs)
genBookHandler ==
    /\ Alive /\ pcMain = "gb"
    /\ mu[loopI] = "none"
    /\ bookHandlers' = [bookHandlers EXCEPT ![loopI] = Append(@, "files")]
    /\ booksWg' = booksWg + 1
    /\ pcB' = [pcB EXCEPT ![loopI] = "acquire"]
    /\ pcMain' = "bs_read"
    /\ UNCHANGED <<flow, loopI, enumI, arrays, handlers, mainHdr, server,
                   serverWg, booksSem, smVars, failed, pageI, mu, pages,
                   files, sitemapURLS, httpVars, crashed, extVars>>

\* handlers = append(handlers, h): the read of the variable handlers
BuildServerAppendRead ==
    /\ Alive /\ pcMain = "bs_read"
    /\ mainHdr' = handlers
    /\ pcMain' = "bs_write"
    /\ UNCHANGED <<flow, loopI, enumI, arrays, handlers, server, booksWg,
                   serverWg, booksSem, smVars, builderVars, mu, bookHandlers,
                   pages, files, sitemapURLS, httpVars, crashed, extVars>>

\* ... the append and the write of the variable handlers; next book
BuildServerAppendWrite ==
    /\ Alive /\ pcMain = "bs_write"
    /\ LET r == AppendSlice(arrays, mainHdr, <<BookH(loopI)>>)
       IN /\ arrays' = r.arrays
          /\ handlers' = r.hdr
    /\ mainHdr' = NilSlice
    /\ loopI' = loopI + 1
    /\ pcMain' = IF loopI < NumBooks THEN "gb" ELSE "bs_server"
    /\ UNCHANGED <<flow, enumI, server, booksWg, serverWg, booksSem, smVars,
                   builderVars, mu, bookHandlers, pages, files, sitemapURLS,
                   httpVars, crashed, extVars>>

\* server := &ServerConfig{Handlers: handlers}; return.  The export flows go
\* on to waitBuildServerDone, previewWebsite starts the HTTP server.
BuildServerReturn ==
    /\ Alive /\ pcMain = "bs_server"
    /\ server' = handlers
    /\ pcMain' = IF flow = "previewWebsite" THEN "serving" ELSE "wait"
    /\ UNCHANGED <<flow, loopI, enumI, arrays, handlers, mainHdr, booksWg,
                   serverWg, booksSem, smVars, builderVars, mu, bookHandlers,
                   pages, files, sitemapURLS, httpVars, crashed, extVars>>

\* waitBuildServerDone(): serverWg.Wait() returns when the counter is zero
waitBuildServerDone ==
    /\ Alive /\ pcMain = "wait"
    /\ serverWg = 0
    /\ enumI' = 1
    /\ pcMain' = "enum"
    /\ UNCHANGED <<flow, loopI, arrays, handlers, mainHdr, server, booksWg,
                   serverWg, booksSem, smVars, builderVars, mu, bookHandlers,
                   pages, files, sitemapURLS, httpVars, crashed, extVars>>

ServerHandler(i) == arrays[server.arr][i]

\* the position of the first book handler at or after position i of
\* server.Handlers, server.len + 1 when there is none
NextBook(i) ==
    LET later == {j \in i..server.len : ServerHandler(j).kind = "book"}
    IN IF later = {} THEN server.len + 1
       ELSE CHOOSE j \in later : \A k \in later : j <= k

\* for _, h := range server.Handlers { nPages += len(h.URLS()) }: the URLS()
\* of the handlers up to the next book handler, then getURLs of that one:
\* mu.Lock()
EnumerateLock ==
    /\ Alive /\ pcMain = "enum"
    /\ NextBook(enumI) <= server.len
    /\ muLock(ServerHandler(NextBook(enumI)).book, "main")
    /\ enumI' = NextBook(enumI)
    /\ pcMain' = "enum_read"
    /\ UNCHANGED <<flow, loopI, arrays, handlers, mainHdr, server, booksWg,
                   serverWg, booksSem, smVars, builderVars, bookHandlers,
                   pages, files, sitemapURLS, httpVars, crashed, extVars>>

\* ... the list is built, the deferred mu.Unlock() runs
EnumerateRead ==
    /\ Alive /\ pcMain = "enum_read"
    /\ muUnlock(ServerHandler(enumI).book)
    /\ enumI' = enumI + 1
    /\ pcMain' = "enum"
    /\ UNCHANGED <<flow, loopI, arrays, handlers, mainHdr, server, booksWg,
                   serverWg, booksSem, smVars, builderVars, bookHandlers,
                   pages, files, sitemapURLS, httpVars, crashed, extVars>>

\* the loop is over: the exporter is called next
EnumerateEnd ==
    /\ Alive /\ pcMain = "enum"
    /\ NextBook(enumI) > server.len
    /\ enumI' = 0
    /\ pcMain' = "export"
    /\ UNCHANGED <<flow, loopI, arrays, handlers, mainHdr, server, booksWg,
                   serverWg, booksSem, smVars, builderVars, mu, bookHandlers,
                   pages, files, sitemapURLS, httpVars, crashed, extVars>>

\* genToDir: WriteServerFilesToDir(dir, server.Handlers) is called
genToDir ==
    /\ Alive /\ pcMain = "export"
    /\ pcMain' = "exportDir"
    /\ UNCHANGED <<flow, loopI, enumI, arrays, handlers, mainHdr, server,
                   booksWg, serverWg, booksSem, smVars, builderVars, mu,
                   bookHandlers, pages, files, sitemapURLS, httpVars,
                   crashed, extVars>>

\* previewToInsantPreview: WriteServerFilesToZip(server.Handlers) is called
previewToInsantPreview ==
    /\ Alive /\ pcMain = "export"
    /\ pcMain' = "exportZip"
    /\ UNCHANGED <<flow, loopI, enumI, arrays, handlers, mainHdr, server,
                   booksWg, serverWg, booksSem, smVars, builderVars, mu,
                   bookHandlers, pages, files, sitemapURLS, httpVars,
                   crashed, extVars>>

\* ------------------------------------------------- the sitemap goroutine
\* waitBooksDone(): booksWg.Wait() returns when the counter is zero
waitBooksDone ==
    /\ Alive /\ pcSm = "wait"
    /\ booksWg = 0
    /\ smK' = 1
    /\ pcSm' = "gen"
    /\ UNCHANGED <<mainVars, arrays, handlers, booksWg, serverWg, booksSem,
                   smHdr, builderVars, mu, bookHandlers, pages,
                   files, sitemapURLS, httpVars, crashed, extVars>>

\* genSitemapHandler, one iteration of its loop: addSitemapURL(b, "/") and
\* the range over b.sitemapURLS, both without a lock.  The urls gathered stay
\* local to the call.
genSitemapHandlerBook ==
    /\ Alive /\ pcSm = "gen"
    /\ sitemapURLS' = [sitemapURLS EXCEPT ![smK] = @ \cup {SitemapKey("/")}]
    /\ smK' = IF smK < NumBooks THEN smK + 1 ELSE 0
    /\ pcSm' = IF smK < NumBooks THEN "gen" ELSE "sm_read"
    /\ UNCHANGED <<mainVars, arrays, handlers, booksWg, serverWg, booksSem,
                   smHdr, builderVars, mu, bookHandlers, pages, files,
                   httpVars, crashed, extVars>>

\* handlers = append(handlers, h) in the goroutine: the read of handlers
SitemapAppendRead ==
    /\ Alive /\ pcSm = "sm_read"
    /\ smHdr' = handlers
    /\ pcSm' = "sm_write"
    /\ UNCHANGED <<mainVars, arrays, handlers, booksWg, serverWg, booksSem,
                   smK, builderVars, mu, bookHandlers, pages, files,
                   sitemapURLS, httpVars, crashed, extVars>>

\* ... the append and the write of handlers
SitemapAppendWrite ==
    /\ Alive /\ pcSm = "sm_write"
    /\ LET r == AppendSlice(arrays, smHdr, <<SitemapH>>)
       IN /\ arrays' = r.arrays
          /\ handlers' = r.hdr
    /\ smHdr' = NilSlice
    /\ pcSm' = "sm_done"
    /\ UNCHANGED <<mainVars, booksWg, serverWg, booksSem, smK, builderVars, mu, bookHandlers, pages, files, sitemapURLS,
                   httpVars, crashed, extVars>>

\* serverWg.Done()
SitemapDone ==
    /\ Alive /\ pcSm = "sm_done"
    /\ serverWg' = serverWg - 1
    /\ pcSm' = "done"
    /\ UNCHANGED <<mainVars, arrays, handlers, booksWg, booksSem, smK, smHdr, builderVars, mu, bookHandlers, pages, files,
                   sitemapURLS, httpVars, crashed, extVars>>

\* ------------------------------------------------------ a book's builder
\* A panic in the body: the goroutine unwinds into its deferred functions,
\* the last registered (the getURLs log) first.
Panics(b) ==
    /\ failed' = [failed EXCEPT ![b] = TRUE]
    /\ pcB' = [pcB EXCEPT ![b] = "d_lock"]

Goto(b, pc) == pcB' = [pcB EXCEPT ![b] = pc]

\* a builder that starts without waiting for a free slot
BuilderAcquire_NoLimit(b) ==
    /\ Alive /\ pcB[b] = "acquire"
    /\ booksSem' = booksSem + 1
    /\ Goto(b, "download")
    /\ UNCHANGED <<mainVars, smVars, arrays, handlers, booksWg, serverWg,
                   failed, pageI, mu, bookHandlers, pages, files,
                   sitemapURLS, httpVars, crashed, extVars>>

\* booksSem <- true: blocks while the channel is full
BuilderAcquire(b) ==
    /\ Alive /\ pcB[b] = "acquire"
    /\ booksSem < NumCPU
    /\ booksSem' = booksSem + 1
    /\ Goto(b, "download")
    /\ UNCHANGED <<mainVars, smVars, arrays, handlers, booksWg, serverWg,
                   failed, pageI, mu, bookHandlers, pages, files,
                   sitemapURLS, httpVars, crashed, extVars>>

\* downloadBook(book) and buildBookPages(book) return, then
\* addSitemapURL(book, book.CanonnicalURL()); or must(err) in one of the two
\* panics
BuilderDownload(b) ==
    /\ Alive /\ pcB[b] = "download"
    /\ \/ /\ Goto(b, "ah_lock") /\ UNCHANGED failed
          /\ sitemapURLS' = [sitemapURLS EXCEPT
                               ![b] = @ \cup {SitemapKey(urlJoin(siteBaseURL, URL(b)))}]
       \/ Panics(b) /\ UNCHANGED sitemapURLS
    /\ UNCHANGED <<mainVars, smVars, arrays, handlers, booksWg, serverWg,
                   booksSem, pageI, mu, bookHandlers, pages, files,
                   httpVars, crashed, extVars>>

\* the handler the builder adds next: the img directory handler, then the
\* TOC search handler
NextNested(b) == IF Len(bookHandlers[b]) = 1 THEN "imgdir" ELSE "toc"

\* addHandler(h) in the builder: mu.Lock().  genBookTOCSearchHandlerMust,
\* evaluated before the second call, may panic.
BuilderAddHandlerLock(b) ==
    /\ Alive /\ pcB[b] = "ah_lock"
    /\ \/ /\ muLock(b, "builder")
          /\ Goto(b, "ah_add") /\ UNCHANGED failed
       \/ /\ NextNested(b) = "toc"
          /\ Panics(b) /\ UNCHANGED mu
    /\ UNCHANGED <<mainVars, smVars, arrays, handlers, booksWg, serverWg,
                   booksSem, pageI, bookHandlers, pages, files, sitemapURLS,
                   httpVars, crashed, extVars>>

\* handlers = append(handlers, h); mu.Unlock()
BuilderAddHandler(b) ==
    /\ Alive /\ pcB[b] = "ah_add"
    /\ bookHandlers' = [bookHandlers EXCEPT ![b] = Append(@, NextNested(b))]
    /\ muUnlock(b)
    /\ Goto(b, IF NextNested(b) = "imgdir" THEN "ah_lock" ELSE "covers")
    /\ UNCHANGED <<mainVars, smVars, arrays, handlers, booksWg, serverWg,
                   booksSem, failed, pageI, pages, files, sitemapURLS,
                   httpVars, crashed, extVars>>

\* copyCover: the three filesHandler.AddFile calls; u.PanicIf in CoverURL
BuilderCovers(b) ==
    /\ Alive /\ pcB[b] = "covers"
    /\ IF CoverImageName(b) = ""
       THEN Panics(b) /\ UNCHANGED files
       ELSE /\ files' = [files EXCEPT ![b] =
                           @ \cup {CoverURL(b), CoverSmallURL(b), CoverTwitterURL(b)}]
            /\ Goto(b, "p_lock") /\ UNCHANGED failed
    /\ UNCHANGED <<mainVars, smVars, arrays, handlers, booksWg, serverWg,
                   booksSem, pageI, mu, bookHandlers, pages, sitemapURLS,
                   httpVars, crashed, extVars>>

\* the loop entered without mu.Lock()
BuilderPagesLock_NoLock(b) ==
    /\ Alive /\ pcB[b] = "p_lock"
    /\ pageI' = [pageI EXCEPT ![b] = 1]
    /\ Goto(b, "p_loop")
    /\ UNCHANGED <<mainVars, smVars, arrays, handlers, booksWg, serverWg,
                   booksSem, failed, mu, bookHandlers, pages, files,
                   sitemapURLS, httpVars, crashed, extVars>>

\* genPage: mu.Lock() before the loop over book.Chapters()
BuilderPagesLock(b) ==
    /\ Alive /\ pcB[b] = "p_lock"
    /\ muLock(b, "builder")
    /\ pageI' = [pageI EXCEPT ![b] = 1]
    /\ Goto(b, "p_loop")
    /\ UNCHANGED <<mainVars, smVars, arrays, handlers, booksWg, serverWg,
                   booksSem, failed, bookHandlers, pages, files, sitemapURLS,
                   httpVars, crashed, extVars>>

\* addPage locking per page: mu is given up after every page
BuilderAddPage_LockPerPage(b) ==
    /\ Alive /\ pcB[b] = "p_loop"
    /\ pageI[b] <= Len(PageList(b))
    /\ mu[b] \in {"builder", "none"}
    /\ LET page == PageList(b)[pageI[b]]
       IN /\ sitemapURLS' = [sitemapURLS EXCEPT
                               ![b] = @ \cup {SitemapKey(PageCanonnicalURL(page))}]
          /\ pages' = [pages EXCEPT
                         ![b] = (ensureHTMLSuffix(PageURL(page)) :> page.name) @@ @]
          /\ files' = [files EXCEPT
                         ![b] = @ \cup {PageImageURL(page, img) : img \in page.images}]
          /\ pageI' = [pageI EXCEPT ![b] = @ + 1]
    /\ muUnlock(b)
    /\ UNCHANGED <<mainVars, smVars, arrays, handlers, booksWg, serverWg,
                   booksSem, pcB, failed, bookHandlers, httpVars, crashed,
                   extVars>>

\* addPage(page) for the next chapter or article, mu held: the sitemap URL,
\* pages[uri] = page, AddFile for each image; or a panic (book.Chapters()
\* on a nil RootPage, a nil page), which leaves mu locked
BuilderAddPage(b) ==
    /\ Alive /\ pcB[b] = "p_loop"
    /\ pageI[b] <= Len(PageList(b))
    /\ \/ LET page == PageList(b)[pageI[b]]
          IN /\ sitemapURLS' = [sitemapURLS EXCEPT
                                  ![b] = @ \cup {SitemapKey(PageCanonnicalURL(page))}]
             /\ pages' = [pages EXCEPT
                            ![b] = (ensureHTMLSuffix(PageURL(page)) :> page.name) @@ @]
             /\ files' = [files EXCEPT
                            ![b] = @ \cup {PageImageURL(page, img) : img \in page.images}]
             /\ pageI' = [pageI EXCEPT ![b] = @ + 1]
             /\ UNCHANGED <<pcB, failed>>
       \/ /\ Panics(b)
          /\ UNCHANGED <<pageI, pages, files, sitemapURLS>>
    /\ UNCHANGED <<mainVars, smVars, arrays, handlers, booksWg, serverWg,
                   booksSem, mu, bookHandlers, httpVars, crashed, extVars>>

\* mu.Unlock() after the loop; the function body ends
\* the page loop ending without mu.Unlock()
BuilderPagesUnlock_KeepsLock(b) ==
    /\ Alive /\ pcB[b] = "p_loop"
    /\ pageI[b] > Len(PageList(b))
    /\ pageI' = [pageI EXCEPT ![b] = 0]
    /\ Goto(b, "d_lock")
    /\ UNCHANGED <<mainVars, smVars, arrays, handlers, booksWg, serverWg,
                   booksSem, failed, mu, bookHandlers, pages, files,
                   sitemapURLS, httpVars, crashed, extVars>>

BuilderPagesUnlock(b) ==
    /\ Alive /\ pcB[b] = "p_loop"
    /\ pageI[b] > Len(PageList(b))
    /\ muUnlock(b)
    /\ pageI' = [pageI EXCEPT ![b] = 0]
    /\ Goto(b, "d_lock")
    /\ UNCHANGED <<mainVars, smVars, arrays, handlers, booksWg, serverWg,
                   booksSem, failed, bookHandlers, pages, files,
                   sitemapURLS, httpVars, crashed, extVars>>

\* second deferred function: urls := getURLs(), mu.Lock()
BuilderDeferLock(b) ==
    /\ Alive /\ pcB[b] = "d_lock"
    /\ muLock(b, "builder")
    /\ Goto(b, "d_read")
    /\ UNCHANGED <<mainVars, smVars, arrays, handlers, booksWg, serverWg,
                   booksSem, failed, pageI, bookHandlers, pages, files,
                   sitemapURLS, httpVars, crashed, extVars>>

\* ... the list is built, mu.Unlock(), the log line
BuilderDeferRead(b) ==
    /\ Alive /\ pcB[b] = "d_read"
    /\ muUnlock(b)
    /\ Goto(b, "release")
    /\ UNCHANGED <<mainVars, smVars, arrays, handlers, booksWg, serverWg,
                   booksSem, failed, pageI, bookHandlers, pages, files,
                   sitemapURLS, httpVars, crashed, extVars>>

\* a release that is not deferred: a panicking builder skips booksWg.Done()
BuilderRelease_NotDeferred(b) ==
    /\ Alive /\ pcB[b] = "release"
    /\ booksSem' = booksSem - 1
    /\ booksWg' = IF failed[b] THEN booksWg ELSE booksWg - 1
    /\ Goto(b, IF failed[b] THEN "dead" ELSE "done")
    /\ crashed' = failed[b]
    /\ UNCHANGED <<mainVars, smVars, arrays, handlers, serverWg, failed,
                   pageI, mu, bookHandlers, pages, files, sitemapURLS,
                   httpVars, extVars>>

\* first deferred function: <-booksSem; booksWg.Done().  The goroutine
\* ends; when it is panicking no deferred function has recovered, and the
\* runtime ends the process as soon as this last one returns.
BuilderRelease(b) ==
    /\ Alive /\ pcB[b] = "release"
    /\ booksSem' = booksSem - 1
    /\ booksWg' = booksWg - 1
    /\ Goto(b, IF failed[b] THEN "dead" ELSE "done")
    /\ crashed' = failed[b]
    /\ UNCHANGED <<mainVars, smVars, arrays, handlers, serverWg, failed,
                   pageI, mu, bookHandlers, pages, files, sitemapURLS,
                   httpVars, extVars>>

\* --------------------------------------------------- the HTTP front end
\* the URIs a request asks a book's handler for
RequestURIs(b) ==
    {indexURL(b), book404URL(b), overviewURL(b),
     ensureHTMLSuffix(PageURL(Chapter(b))), CoverURL(b), URL(b) \o "none.html"}

\* previewWebsite after StartServer: a request (FindHandler, get) or the
\* readiness logger (URLS, getURLs) reaches the handler of book b: mu.Lock()
HttpLock ==
    /\ Alive /\ pcMain = "serving" /\ pcHttp = "idle"
    /\ \E b \in Books :
         /\ \E i \in 1..server.len : ServerHandler(i) = BookH(b)
         /\ muLock(b, "http")
         /\ req' = b
    /\ pcHttp' = "read"
    /\ UNCHANGED <<mainVars, smVars, arrays, handlers, booksWg, serverWg,
                   booksSem, builderVars, bookHandlers, pages, files,
                   sitemapURLS, crashed, extVars>>

\* ... the result is computed, the deferred mu.Unlock() runs
HttpRead ==
    /\ Alive /\ pcHttp = "read"
    /\ muUnlock(req)
    /\ req' = 0
    /\ pcHttp' = "idle"
    /\ UNCHANGED <<mainVars, smVars, arrays, handlers, booksWg, serverWg,
                   booksSem, builderVars, bookHandlers, pages, files,
                   sitemapURLS, crashed, extVars>>

\* -------------------------------------------------------- specification
Next ==
    \/ StartExport
    \/ previewWebsite
    \/ BuildServerFiles
    \/ BuildServerIndex
    \/ BuildServerSpawnSitemap
    \/ genBookHandler
    \/ BuildServerAppendRead
    \/ BuildServerAppendWrite
    \/ BuildServerReturn
    \/ waitBuildServerDone
    \/ EnumerateLock
    \/ EnumerateRead
    \/ EnumerateEnd
    \/ genToDir
    \/ previewToInsantPreview
    \/ waitBooksDone
    \/ genSitemapHandlerBook
    \/ SitemapAppendRead
    \/ SitemapAppendWrite
    \/ SitemapDone
    \/ \E b \in Books : BuilderAcquire(b)
    \/ \E b \in Books : BuilderDownload(b)
    \/ \E b \in Books : BuilderAddHandlerLock(b)
    \/ \E b \in Books : BuilderAddHandler(b)
    \/ \E b \in Books : BuilderCovers(b)
    \/ \E b \in Books : BuilderPagesLock(b)
    \/ \E b \in Books : BuilderAddPage(b)
    \/ \E b \in Books : BuilderPagesUnlock(b)
    \/ \E b \in Books : BuilderDeferLock(b)
    \/ \E b \in Books : BuilderDeferRead(b)
    \/ \E b \in Books : BuilderRelease(b)
    \/ HttpLock
    \/ HttpRead

Spec == Init /\ [][Next]_vars

\* ------------------------------------------------------------- vocabulary
\* genBookHandler has started the builder of book b
Launched(b) == pcB[b] # "idle"

\* the builder of book b has run its deferred release (booksWg.Done())
Exited(b) == pcB[b] \in {"done", "dead"}

\* the builder of book b has taken a booksSem slot and not yet given it back
HoldsSlot(b) ==
    pcB[b] \in {"download", "ah_lock", "ah_add", "covers", "p_lock",
                "p_loop", "d_lock", "d_read", "release"}

\* the flows that are reading or writing pages / handlers of book b right now
Accessors(b) ==
    (IF pcB[b] \in {"ah_add", "p_loop", "d_read"} THEN {"builder"} ELSE {})
      \cup (IF pcMain = "enum_read" /\ ServerHandler(enumI).book = b
            THEN {"main"} ELSE {})
      \cup (IF pcHttp = "read" /\ req = b THEN {"http"} ELSE {})

\* the flows inside a getURLs or get call on book b, mu acquired
Readers(b) ==
    (IF pcB[b] = "d_read" THEN {"builder"} ELSE {})
      \cup (IF pcMain = "enum_read" /\ ServerHandler(enumI).book = b
            THEN {"main"} ELSE {})
      \cup (IF pcHttp = "read" /\ req = b THEN {"http"} ELSE {})

\* URLS() of a handler of the server
HandlerURLS(h) ==
    CASE h.kind = "static"       -> {"/s/bundle.css", "/s/bundle.js", "/s/favicon.ico",
                                     "/s/index.css", "/s/main.css"}
      [] h.kind = "covers"       -> DirHandlerURLS("covers", "/covers/")
      [] h.kind = "covers_small" -> DirHandlerURLS("covers_small", "/covers_small/")
      [] h.kind = "top"          -> {"/index.html", "/index-grid.html", "/404.html",
                                     "/about.html", "/feedback.html"}
      [] h.kind = "sitemap"      -> SitemapHandlerURLS
      [] h.kind = "book"         -> getURLs(h.book)
      [] OTHER                   -> {}

\* both barriers are at zero with every builder and the sitemap task over
BarriersSatisfied ==
    /\ server # NilSlice
    /\ booksWg = 0 /\ serverWg = 0
    /\ pcSm = "done"
    /\ \A b \in Books : pcB[b] = "done"

\* ----------------------------------------------------------------- claims
\* C1: when the exporter (WriteServerFilesToDir / WriteServerFilesToZip) is
\* called, every book builder has exited (booksWg is zero) and the sitemap
\* task has finished (serverWg is zero).
C1_ExportAfterGeneration ==
    pcMain \in {"exportDir", "exportZip"} =>
        /\ booksWg = 0 /\ serverWg = 0
        /\ \A b \in Books : Exited(b)
        /\ pcSm = "done"

\* C2: genSitemapHandler runs (and reads the books' sitemapURLS) only after
\* every book builder of this buildServer call has exited.
C2_SitemapAfterBooks ==
    pcSm = "gen" => \A b \in Books : Exited(b)

\* C3: booksWg counts exactly the builders launched and not yet exited, is
\* never negative, and is zero once all of them have exited, failed or not.
C3_BarrierCounting ==
    /\ booksWg >= 0
    /\ booksWg = Cardinality({b \in Books : Launched(b) /\ ~Exited(b)})

C3_Witness ==
    /\ \A b \in Books : Exited(b)
    /\ \E b \in Books : failed[b]
    /\ \E b \in Books : ~failed[b]
    /\ booksWg = 0

\* C4: a builder that failed at any step runs its deferred steps to
\* completion: its deferred getURLs never waits for a mutex that the
\* builder's own goroutine holds and nothing will unlock.
C4_GuaranteedRelease ==
    \A b \in Books :
        (failed[b] /\ pcB[b] = "d_lock") => mu[b] # "builder"

\* C5: the builders holding a booksSem slot are at most NumCPU, and booksSem
\* holds one value for each of them.
C5_BoundedConcurrency ==
    /\ Cardinality({b \in Books : HoldsSlot(b)}) <= NumCPU
    /\ booksSem = Cardinality({b \in Books : HoldsSlot(b)})

C5_Witness ==
    /\ booksSem = NumCPU
    /\ NumBooks > NumCPU => \E b \in Books : pcB[b] = "acquire"
    /\ \E b \in Books : pcB[b] = "p_loop"

\* C6: whoever reads or writes pages / handlers of a book holds that book's
\* mu, so no two flows access them at the same time.
C6_LockDiscipline ==
    \A b \in Books : \A w \in Accessors(b) : mu[b] = w

C6_Witness ==
    \E b \in Books :
        /\ pcHttp = "read" /\ req = b
        /\ pcB[b] = "p_lock"

C8_AtomicPublication ==
    \A b \in Books :
        Readers(b) # {} =>
            LET all     == PageURIs(b) \cup ImageURIs(b)
                listed  == getURLs(b) \cap all
                resolved == {u \in all : get(b, u) # "nil"}
            IN /\ listed = {} \/ listed = all
               /\ resolved = listed

C8_Witness ==
    \E b \in Books :
        /\ Len(PageList(b)) > 1
        /\ pcHttp = "read" /\ req = b
        /\ pcB[b] = "d_lock"
        /\ PageURIs(b) \cup ImageURIs(b) \subseteq getURLs(b)

\* C9: once both barriers are satisfied, no two handlers of the server list
\* a common URI.
C9_DisjointURIs ==
    BarriersSatisfied =>
        \A i, j \in 1..server.len :
            i < j => HandlerURLS(ServerHandler(i)) \cap HandlerURLS(ServerHandler(j)) = {}

\* C10: in server.Handlers the static files handler, the two cover
\* directory handlers and the top-level pages handler precede every book's
\* handler.
C10_StaticBeforeBooks ==
    server # NilSlice =>
        \A i \in 1..server.len :
            ServerHandler(i).kind = "book" =>
                \A f \in {StaticH, CoversH, CoversSmallH, TopH} :
                    \E j \in 1..(i - 1) : ServerHandler(j) = f

C10_Witness ==
    /\ server # NilSlice
    /\ \E i, j \in 1..server.len :
          /\ i < j
          /\ ServerHandler(i) = SitemapH
          /\ ServerHandler(j).kind = "book"

\* ------------------------------------------- resolution inside one handler
\* The dynamic handler of the first book, queried in any state its builder
\* can have brought it to: the nested handler list is a prefix of files, img
\* directory, TOC search; the page map holds any of the URIs a page can have;
\* AddFile has registered any of the URIs below in the filesHandler.
GetBook == 1

\* URIs that more than one source of the handler can claim
tocURL(b) == URL(b) \o "toc_search.js"

chapterURI(b) == ensureHTMLSuffix(PageURL(Chapter(b)))

GetPageKeys == {chapterURI(GetBook), indexURL(GetBook)}

GetFileKeys ==
    {CoverURL(GetBook), tocURL(GetBook), URL(GetBook) \o "img/n.png",
     chapterURI(GetBook)}

\* server.Handlers once buildServer and the sitemap goroutine are over
BuiltHandlers ==
    <<StaticH>> \o genBooksIndex \o [b \in Books |-> BookH(b)] \o <<SitemapH>>

\* buildServer has returned, every builder and the sitemap goroutine are over
BuiltCore ==
    /\ loopI = NumBooks + 1
    /\ enumI = 0
    /\ arrays = <<BuiltHandlers>>
    /\ handlers = [arr |-> 1, len |-> Len(BuiltHandlers)]
    /\ mainHdr = NilSlice
    /\ server = [arr |-> 1, len |-> Len(BuiltHandlers)]
    /\ booksWg = 0
    /\ serverWg = 0
    /\ booksSem = 0
    /\ pcSm = "done"
    /\ smK = 0
    /\ smHdr = NilSlice
    /\ pcB = [b \in Books |-> "done"]
    /\ failed = [b \in Books |-> FALSE]
    /\ pageI = [b \in Books |-> 0]
    /\ mu = [b \in Books |-> "none"]
    /\ pcHttp = "idle"
    /\ req = 0
    /\ crashed = FALSE

\* what a builder that exits normally leaves in pages, in the filesHandler,
\* in the nested handler list and in b.sitemapURLS (with the "/" entry of
\* genSitemapHandler)
BuiltPages(b) ==
    [u \in PageURIs(b) |->
        LET i == CHOOSE k \in 1..Len(PageList(b)) :
                     ensureHTMLSuffix(PageURL(PageList(b)[k])) = u
        IN PageList(b)[i].name]

BuiltFiles(b) ==
    {CoverURL(b), CoverSmallURL(b), CoverTwitterURL(b)} \cup ImageURIs(b)

BuiltSitemapURLS(b) ==
    {SitemapKey(urlJoin(siteBaseURL, URL(b))), SitemapKey("/")}
      \cup {SitemapKey(PageCanonnicalURL(PageList(b)[i])) : i \in 1..Len(PageList(b))}

BuiltBooks ==
    /\ bookHandlers = [b \in Books |-> <<"files", "imgdir", "toc">>]
    /\ pages = [b \in Books |-> BuiltPages(b)]
    /\ files = [b \in Books |-> BuiltFiles(b)]
    /\ sitemapURLS = [b \in Books |-> BuiltSitemapURLS(b)]

\* the live server of previewWebsite over such a state
ServingInit ==
    /\ flow = "previewWebsite"
    /\ pcMain = "serving"
    /\ BuiltCore

Init_Get ==
    /\ ServingInit
    /\ ExtInit
    /\ \E n \in 1..3 :
         bookHandlers = [b \in Books |->
                           IF b = GetBook THEN SubSeq(<<"files", "imgdir", "toc">>, 1, n)
                           ELSE <<"files">>]
    /\ \E keys \in SUBSET GetPageKeys :
         pages = [b \in Books |->
                    IF b = GetBook THEN [u \in keys |-> "p"] ELSE << >>]
    /\ \E keys \in SUBSET GetFileKeys :
         files = [b \in Books |-> IF b = GetBook THEN keys ELSE {}]
    /\ sitemapURLS = [b \in Books |-> {}]

Next_Get ==
    \/ HttpLock
    \/ HttpRead

Spec_Get == Init_Get /\ [][Next_Get]_vars

\* the positions in the nested handler list whose handler resolves uri
NestedHits(b, uri) ==
    {i \in 1..Len(bookHandlers[b]) : uri \in NestedURLS(b, bookHandlers[b][i])}

\* C11: get returns the producer of the first source that claims the URI:
\* the fixed URIs before the page map, the page map before the nested
\* handlers, and of two nested handlers that resolve it the one added first.
C11_FirstMatchWins ==
    \A u \in FixedURLs(GetBook) \cup GetPageKeys \cup GetFileKeys
                \cup {URL(GetBook) \o "none.html"} :
        Readers(GetBook) # {} =>
            LET r == get(GetBook, u)
            IN /\ u \in FixedURLs(GetBook) => r = "fixed"
               /\ (u \notin FixedURLs(GetBook) /\ u \in DOMAIN pages[GetBook])
                     => r = "page"
               /\ (u \notin FixedURLs(GetBook) /\ u \notin DOMAIN pages[GetBook])
                     => /\ \A i, j \in NestedHits(GetBook, u) :
                             i < j => /\ r # bookHandlers[GetBook][j]
                                      /\ r \in {bookHandlers[GetBook][k] : k \in 1..i}
                        /\ NestedHits(GetBook, u) = {} <=> r = "nil"
                        /\ \A i \in NestedHits(GetBook, u) :
                             r \in {bookHandlers[GetBook][k] : k \in 1..i}

C11_Witness ==
    /\ Readers(GetBook) # {}
    /\ NestedHits(GetBook, tocURL(GetBook)) = {1, 3}
    /\ get(GetBook, tocURL(GetBook)) = "files"
    /\ indexURL(GetBook) \in DOMAIN pages[GetBook]
    /\ get(GetBook, indexURL(GetBook)) = "fixed"
    /\ chapterURI(GetBook) \in DOMAIN pages[GetBook] \cap files[GetBook]
    /\ get(GetBook, chapterURI(GetBook)) = "page"

\* ------------------------------------------------- waiters on the barriers
\* previewWebsite after buildServer returned: go func() { ... }()
LoggerStart ==
    /\ Alive /\ pcMain = "serving" /\ pcLog = "idle"
    /\ pcLog' = "wait"
    /\ UNCHANGED <<mainVars, smVars, arrays, handlers, booksWg, serverWg,
                   booksSem, builderVars, mu, bookHandlers, pages, files,
                   sitemapURLS, httpVars, crashed, logI, expVars, reqVars, sdVars, txtVars, gapVars>>

\* a Wait that takes the counter down as a receive from a channel would
LoggerWait_Consumes ==
    /\ Alive /\ pcLog = "wait"
    /\ serverWg = 0
    /\ serverWg' = serverWg - 1
    /\ logI' = 1
    /\ pcLog' = "enum"
    /\ UNCHANGED <<mainVars, smVars, arrays, handlers, booksWg,
                   booksSem, builderVars, mu, bookHandlers, pages, files,
                   sitemapURLS, httpVars, crashed, expVars, reqVars, sdVars, txtVars, gapVars>>

\* waitBuildServerDone() in the logger goroutine: serverWg.Wait()
LoggerWait ==
    /\ Alive /\ pcLog = "wait"
    /\ serverWg = 0
    /\ logI' = 1
    /\ pcLog' = "enum"
    /\ UNCHANGED <<mainVars, smVars, arrays, handlers, booksWg, serverWg,
                   booksSem, builderVars, mu, bookHandlers, pages, files,
                   sitemapURLS, httpVars, crashed, expVars, reqVars, sdVars, txtVars, gapVars>>

\* for _, h := range server.Handlers { nPages += len(h.URLS()) }: getURLs of
\* the next book handler, mu.Lock()
LoggerLock ==
    /\ Alive /\ pcLog = "enum"
    /\ NextBook(logI) <= server.len
    /\ muLock(ServerHandler(NextBook(logI)).book, "log")
    /\ logI' = NextBook(logI)
    /\ pcLog' = "enum_read"
    /\ UNCHANGED <<mainVars, smVars, arrays, handlers, booksWg, serverWg,
                   booksSem, builderVars, bookHandlers, pages, files,
                   sitemapURLS, httpVars, crashed, expVars, reqVars, sdVars, txtVars, gapVars>>

\* ... the list is built, the deferred mu.Unlock() runs
LoggerRead ==
    /\ Alive /\ pcLog = "enum_read"
    /\ muUnlock(ServerHandler(logI).book)
    /\ logI' = logI + 1
    /\ pcLog' = "enum"
    /\ UNCHANGED <<mainVars, smVars, arrays, handlers, booksWg, serverWg,
                   booksSem, builderVars, bookHandlers, pages, files,
                   sitemapURLS, httpVars, crashed, expVars, reqVars, sdVars, txtVars, gapVars>>

\* the loop is over: the log line, the goroutine ends
LoggerEnd ==
    /\ Alive /\ pcLog = "enum"
    /\ NextBook(logI) > server.len
    /\ logI' = 0
    /\ pcLog' = "done"
    /\ UNCHANGED <<mainVars, smVars, arrays, handlers, booksWg, serverWg,
                   booksSem, builderVars, mu, bookHandlers, pages, files,
                   sitemapURLS, httpVars, crashed, expVars, reqVars, sdVars, txtVars, gapVars>>

\* the three drivers with the sitemap goroutine, the builders and the
\* readiness logger, without HTTP requests
Next_Wait ==
    \/ StartExport
    \/ previewWebsite
    \/ BuildServerFiles
    \/ BuildServerIndex
    \/ BuildServerSpawnSitemap
    \/ genBookHandler
    \/ BuildServerAppendRead
    \/ BuildServerAppendWrite
    \/ BuildServerReturn
    \/ waitBuildServerDone
    \/ EnumerateLock
    \/ EnumerateRead
    \/ EnumerateEnd
    \/ genToDir
    \/ previewToInsantPreview
    \/ waitBooksDone
    \/ genSitemapHandlerBook
    \/ SitemapAppendRead
    \/ SitemapAppendWrite
    \/ SitemapDone
    \/ \E b \in Books : BuilderAcquire(b)
    \/ \E b \in Books : BuilderDownload(b)
    \/ \E b \in Books : BuilderAddHandlerLock(b)
    \/ \E b \in Books : BuilderAddHandler(b)
    \/ \E b \in Books : BuilderCovers(b)
    \/ \E b \in Books : BuilderPagesLock(b)
    \/ \E b \in Books : BuilderAddPage(b)
    \/ \E b \in Books : BuilderPagesUnlock(b)
    \/ \E b \in Books : BuilderDeferLock(b)
    \/ \E b \in Books : BuilderDeferRead(b)
    \/ \E b \in Books : BuilderRelease(b)
    \/ LoggerStart
    \/ LoggerWait
    \/ LoggerLock
    \/ LoggerRead
    \/ LoggerEnd

Spec_Wait == Init /\ [][Next_Wait]_vars

TrimPrefix(str, pre) ==
    IF HasPrefix(str, pre) THEN SubSeq(str, Len(pre) + 1, Len(str)) ELSE str

\* os.PathSeparator of the build
Separator == "/"

RECURSIVE FromSlash(_)
\* filepath.FromSlash: every "/" replaced by the separator
FromSlash(str) ==
    IF Len(str) = 0 THEN str
    ELSE (IF SubSeq(str, 1, 1) = "/" THEN Separator ELSE SubSeq(str, 1, 1))
            \o FromSlash(SubSeq(str, 2, Len(str)))

\* filepath.Dir: all but the last element of the path
FilepathDir(path) ==
    LET seps == {i \in 1..Len(path) : SubSeq(path, i, i) = Separator}
        last == CHOOSE i \in seps : \A j \in seps : j <= i
    IN IF seps = {} THEN "."
       ELSE IF last = 1 THEN Separator
       ELSE SubSeq(path, 1, last - 1)

\* the argument dir of WriteServerFilesToDir
ExportDir == "out"

\* the bytes the producer of a URI emits
Content(uri) == "data of " \o uri

RECURSIVE SetToSeq(_)
\* the elements of a set in the order a range over them yields
SetToSeq(S) ==
    IF S = {} THEN << >>
    ELSE LET x == CHOOSE y \in S : TRUE
         IN <<x>> \o SetToSeq(S \ {x})

RECURSIVE IterURIs(_)
\* server.IterContent(handlers, writeFile): the URIs of each handler's
\* URLS(), handler after handler
IterURIs(hs) ==
    IF hs = << >> THEN << >>
    ELSE SetToSeq(HandlerURLS(Head(hs))) \o IterURIs(Tail(hs))

\* the path WriteServerFilesToDir writes a URI to: filepath.Join of dir and
\* the name, neither empty nor changed by Clean
DestPath(uri) == ExportDir \o Separator \o FromSlash(TrimPrefix(uri, "/"))

\* both exporters are given server.Handlers of a finished build
Init_Export ==
    /\ flow = "export"
    /\ pcMain = "export"
    /\ BuiltCore
    /\ BuiltBooks
    /\ LogInit
    /\ ReqInit
    /\ SdInit
    /\ TxtInit
    /\ GapInit
    /\ expURIs = IterURIs(BuiltHandlers)
    /\ pcDir = "run"
    /\ dirI = 1
    /\ disk = {}
    /\ dirCreated = {}
    /\ mkdirCalls = << >>
    /\ dirFailed = {}
    /\ dirStats = [nFiles |-> 0, totalSize |-> 0]
    /\ pcZip = "run"
    /\ zipI = 1
    /\ zipEntries = << >>
    /\ zipBuf = [files |-> << >>, directory |-> << >>]
    /\ zipFailed = {}
    /\ zipErr = 0
    /\ zipResult = "none"

\* MkdirAll called for the parent directory of every file
MkdirAllCalls_EveryFile(fileDir) == Append(mkdirCalls, fileDir)

\* if !dirCreated[fileDir] { must(os.MkdirAll(fileDir, 0755)) ... }: the
\* calls of MkdirAll after writeFile has come to a file of fileDir
MkdirAllCalls(fileDir) ==
    IF fileDir \in dirCreated THEN mkdirCalls ELSE Append(mkdirCalls, fileDir)

\* writeFile that takes a known directory for a sign that the file exists
DirWriteFile_SkipsKnownDir ==
    /\ pcDir = "run" /\ dirI <= Len(expURIs)
    /\ LET uri     == expURIs[dirI]
           path    == DestPath(uri)
           fileDir == FilepathDir(path)
       IN /\ mkdirCalls' = IF fileDir \in dirCreated THEN mkdirCalls
                           ELSE Append(mkdirCalls, fileDir)
          /\ dirCreated' = dirCreated \cup {fileDir}
          /\ disk' = IF fileDir \in dirCreated THEN disk
                     ELSE {f \in disk : f.path # path}
                            \cup {[path |-> path, data |-> Content(uri)]}
          /\ dirStats' = [nFiles |-> dirStats.nFiles + 1,
                          totalSize |-> dirStats.totalSize + Len(Content(uri))]
          /\ dirI' = dirI + 1
          /\ UNCHANGED <<pcDir, dirFailed>>
    /\ UNCHANGED <<mainVars, smVars, arrays, handlers, booksWg, serverWg,
                   booksSem, builderVars, mu, bookHandlers, pages, files,
                   sitemapURLS, httpVars, crashed, logVars, reqVars, sdVars, txtVars, gapVars, expURIs, zipVars>>

\* writeFile of WriteServerFilesToDir for the next URI: MkdirAll of a parent
\* directory not created yet, WriteFile, the counters; must() panics when
\* either of the two fails
DirWriteFile ==
    /\ pcDir = "run" /\ dirI <= Len(expURIs)
    /\ LET uri     == expURIs[dirI]
           path    == DestPath(uri)
           fileDir == FilepathDir(path)
           calls   == MkdirAllCalls(fileDir)
       IN \/ /\ mkdirCalls' = calls
             /\ dirCreated' = dirCreated \cup {fileDir}
             /\ disk' = {f \in disk : f.path # path}
                          \cup {[path |-> path, data |-> Content(uri)]}
             /\ dirStats' = [nFiles |-> dirStats.nFiles + 1,
                             totalSize |-> dirStats.totalSize + Len(Content(uri))]
             /\ dirI' = dirI + 1
             /\ UNCHANGED <<pcDir, dirFailed>>
          \/ /\ fileDir \notin dirCreated
             /\ mkdirCalls' = calls
             /\ dirFailed' = dirFailed \cup {dirI}
             /\ pcDir' = "panic"
             /\ UNCHANGED <<dirCreated, disk, dirStats, dirI>>
          \/ /\ mkdirCalls' = calls
             /\ dirCreated' = dirCreated \cup {fileDir}
             /\ dirFailed' = dirFailed \cup {dirI}
             /\ pcDir' = "panic"
             /\ UNCHANGED <<disk, dirStats, dirI>>
    /\ UNCHANGED <<mainVars, smVars, arrays, handlers, booksWg, serverWg,
                   booksSem, builderVars, mu, bookHandlers, pages, files,
                   sitemapURLS, httpVars, crashed, logVars, reqVars, sdVars, txtVars, gapVars, expURIs, zipVars>>

\* IterContent is over: return nFiles, totalSize
DirReturn ==
    /\ pcDir = "run" /\ dirI > Len(expURIs)
    /\ pcDir' = "done"
    /\ UNCHANGED <<mainVars, smVars, arrays, handlers, booksWg, serverWg,
                   booksSem, builderVars, mu, bookHandlers, pages, files,
                   sitemapURLS, httpVars, crashed, logVars, reqVars, sdVars, txtVars, gapVars, expURIs, dirI,
                   disk, dirCreated, mkdirCalls, dirFailed, dirStats,
                   zipVars>>

\* writeFile of WriteServerFilesToZip for the next URI: nothing once err is
\* set; else zipWriteFile, which sets err or adds the entry: zw.Create ends
\* the entry before it, whose bytes are then whole in buf, and starts the new
\* one, which takes the data
ZipWriteFile ==
    /\ pcZip = "run" /\ zipI <= Len(expURIs)
    /\ LET uri == expURIs[zipI]
       IN \/ /\ zipErr # 0
             /\ UNCHANGED <<zipEntries, zipBuf, zipFailed, zipErr>>
          \/ /\ zipErr = 0
             /\ zipEntries' = Append(zipEntries,
                                     [name |-> TrimPrefix(uri, "/"), data |-> Content(uri)])
             /\ zipBuf' = [zipBuf EXCEPT !.files = zipEntries]
             /\ UNCHANGED <<zipFailed, zipErr>>
          \/ /\ zipErr = 0
             /\ zipErr' = zipI
             /\ zipFailed' = zipFailed \cup {zipI}
             /\ UNCHANGED <<zipEntries, zipBuf>>
    /\ zipI' = zipI + 1
    /\ UNCHANGED <<mainVars, smVars, arrays, handlers, booksWg, serverWg,
                   booksSem, builderVars, mu, bookHandlers, pages, files,
                   sitemapURLS, httpVars, crashed, logVars, reqVars, sdVars, txtVars, gapVars, expURIs, dirVars,
                   pcZip, zipResult>>

\* IterContent is over: return nil, err or buf.Bytes(), nil; zw is not
\* closed, so the last entry is not ended and no central directory is written
ZipReturn ==
    /\ pcZip = "run" /\ zipI > Len(expURIs)
    /\ pcZip' = "done"
    /\ zipResult' = IF zipErr # 0 THEN "nil" ELSE "bytes"
    /\ UNCHANGED <<mainVars, smVars, arrays, handlers, booksWg, serverWg,
                   booksSem, builderVars, mu, bookHandlers, pages, files,
                   sitemapURLS, httpVars, crashed, logVars, reqVars, sdVars, txtVars, gapVars, expURIs, dirVars,
                   zipI, zipEntries, zipBuf, zipFailed, zipErr>>

Next_Export ==
    \/ DirWriteFile
    \/ DirReturn
    \/ ZipWriteFile
    \/ ZipReturn

Spec_Export == Init_Export /\ [][Next_Export]_vars

\* the URIs enumerated from the handlers of the server
EnumeratedURIs == UNION {HandlerURLS(ServerHandler(i)) : i \in 1..server.len}

\* the files on disk, their path relative to the destination directory
DiskRel ==
    {[name |-> TrimPrefix(f.path, ExportDir \o Separator), data |-> f.data] : f \in disk}

\* C13: a failed write of one item does not end the export: the directory
\* exporter does not stop, the zip exporter returns an archive, and every
\* item whose write did not fail is written.
C13_ExportContinues ==
    /\ pcDir # "panic"
    /\ pcDir = "done" =>
          {f.path : f \in disk}
            = {DestPath(expURIs[i]) : i \in (1..Len(expURIs)) \ dirFailed}
    /\ pcZip = "done" =>
          /\ zipResult = "bytes"
          /\ {zipEntries[k].name : k \in 1..Len(zipEntries)}
               = {TrimPrefix(expURIs[i], "/") : i \in (1..Len(expURIs)) \ zipFailed}

\* C14: after WriteServerFilesToDir the paths below the destination
\* directory are exactly the enumerated URIs without their leading "/", and
\* every URI is at Join(dir, URI without "/").
C14_ExportComplete ==
    pcDir = "done" =>
        /\ {f.name : f \in DiskRel} = {TrimPrefix(u, "/") : u \in EnumeratedURIs}
        /\ \A u \in EnumeratedURIs :
              \E f \in disk : f.path = ExportDir \o "/" \o TrimPrefix(u, "/")

C14_Witness ==
    /\ pcDir = "done"
    /\ \E f \in disk : f.path = "out/essential/b1/ch.html"
    /\ \E f \in disk : f.path = "out/sitemap.txt"
    /\ \E f \in disk : f.path = "out/covers/twitter/c1.png"

\* C15: the (relative path, bytes) pairs WriteServerFilesToDir leaves on disk
\* are the (entry name, bytes) pairs of the archive of WriteServerFilesToZip,
\* the entries that the central directory of the returned bytes lists.
C15_ExportEquivalence ==
    (pcDir = "done" /\ pcZip = "done" /\ zipResult = "bytes") =>
        DiskRel = {zipBuf.directory[i] : i \in 1..Len(zipBuf.directory)}

\* ------------------------------------------------------- the live server
\* the requests answered in one run of the model
MaxRequests == 2

\* http.StatusOK, http.StatusNotFound, http.StatusInternalServerError
StatusOK == 200

StatusNotFound == 404

StatusInternalServerError == 500

\* Get(uri) of a handler of the server: the source of the producer, or "nil";
\* get for a book, serverGet with its five cases for the top-level pages
HandlerGet(h, uri) ==
    CASE h.kind = "book" -> get(h.book, uri)
      [] h.kind = "top"  -> IF uri \in {"/index.html", "/index-grid.html", "/404.html",
                                        "/about.html", "/feedback.html"}
                            THEN "top" ELSE "nil"
      [] OTHER           -> IF uri \in HandlerURLS(h) THEN h.kind ELSE "nil"

\* srv.FindHandler(uri): Get of the first handler, in the order of
\* srv.Handlers, that resolves uri
FindHandler(uri) ==
    LET hit == {i \in 1..server.len : HandlerGet(ServerHandler(i), uri) # "nil"}
    IN IF hit = {} THEN "nil"
       ELSE HandlerGet(ServerHandler(CHOOSE i \in hit : \A j \in hit : i <= j), uri)

\* html := notionToHTML(page, book); page.BodyHTML = template.HTML(string(html))
\* in the page producer of the page registered under uri
setBodyHTML(uri) ==
    LET b == CHOOSE k \in Books : uri \in DOMAIN pages[k]
    IN [bodyHTML EXCEPT ![b][uri] = "html of " \o pages[b][uri]]

\* the page producer rendering the BodyHTML of the request before
pageProducer_StaleBody(uri) ==
    LET b == CHOOSE k \in Books : uri \in DOMAIN pages[k]
    IN "page.tmpl.html(" \o bodyHTML[b][uri] \o ")"

\* the bytes the page producer of get writes for uri: the template over the
\* page whose BodyHTML it has just assigned
pageProducer(uri) ==
    LET b == CHOOSE k \in Books : uri \in DOMAIN pages[k]
    IN "page.tmpl.html(" \o setBodyHTML(uri)[b][uri] \o ")"

\* the bytes that the producer FindHandler returns for uri writes, "" when
\* FindHandler returns nil
Emits(uri) ==
    LET serve == FindHandler(uri)
    IN CASE serve = "nil"  -> ""
         [] serve = "page" -> pageProducer(uri)
         [] OTHER          -> Content(uri)

\* the live server of previewWebsite after a complete build: StartHTTPServer
\* has started the serving goroutine, and the function it returned waits for
\* a signal
Init_HTTP ==
    /\ ServingInit
    /\ BuiltBooks
    /\ LogInit
    /\ ExpInit
    /\ ReqInit
    /\ TxtInit
    /\ GapInit
    /\ pcListen = "serving"
    /\ pcWaitFn = "signal"
    /\ pcShutdown = "idle"
    /\ accepting = TRUE
    /\ chServerClosed = 0
    /\ timerFired = FALSE
    /\ atReturn = [returned |-> FALSE]

\* the http package calls mainHandler for a request, for a registered URI
\* or one that no handler knows
ReqStart ==
    /\ Alive /\ pcMain = "serving" /\ pcReq = "idle"
    /\ accepting
    /\ Len(history) < MaxRequests
    /\ \E uri \in EnumeratedURIs
                  \cup {"/", "/none.html", URL(1) \o "none.html", "/covers/none.png"} :
         rqURI' = uri
    /\ pcReq' = "find"
    /\ rqServe' = "nil"
    /\ rqFail' = "none"
    /\ wire' = 0
    /\ hdrWrites' = 0
    /\ rqLogged' = 0
    /\ failLogged' = FALSE
    /\ invoked' = FALSE
    /\ reraised' = FALSE
    /\ rqBody' = ""
    /\ UNCHANGED <<mainVars, smVars, arrays, handlers, booksWg, serverWg,
                   booksSem, builderVars, mu, bookHandlers, pages, files,
                   sitemapURLS, httpVars, crashed, logVars, expVars, sdVars, txtVars, gapVars,
                   history, bodyHTML>>

\* serve, _ := srv.FindHandler(uri); get of a book takes and gives back mu,
\* and for the overview URI it runs genOverviewContent, which can panic
ReqFind ==
    /\ Alive /\ pcWaitFn # "exited" /\ pcReq = "find"
    /\ \A b \in Books : mu[b] = "none"
    /\ \/ /\ rqServe' = FindHandler(rqURI)
          /\ pcReq' = IF FindHandler(rqURI) = "nil" THEN "notfound" ELSE "serve"
          /\ UNCHANGED rqFail
       \/ /\ \E b \in Books : rqURI = overviewURL(b)
          /\ rqFail' = "panic"
          /\ pcReq' = "recover"
          /\ UNCHANGED rqServe
    /\ UNCHANGED <<mainVars, smVars, arrays, handlers, booksWg, serverWg,
                   booksSem, builderVars, mu, bookHandlers, pages, files,
                   sitemapURLS, httpVars, crashed, logVars, expVars, sdVars, txtVars, gapVars,
                   rqURI, rqBody, bodyHTML,
                   wire, hdrWrites, rqLogged, failLogged, invoked, reraised,
                   history>>

\* the not-found branch answering nothing
ReqNotFound_Silent ==
    /\ Alive /\ pcWaitFn # "exited" /\ pcReq = "notfound"
    /\ rqLogged' = StatusNotFound
    /\ pcReq' = "done"
    /\ UNCHANGED <<mainVars, smVars, arrays, handlers, booksWg, serverWg,
                   booksSem, builderVars, mu, bookHandlers, pages, files,
                   sitemapURLS, httpVars, crashed, logVars, expVars, sdVars, txtVars, gapVars,
                   rqURI, rqBody, bodyHTML,
                   rqServe, rqFail, wire, hdrWrites, failLogged, invoked,
                   reraised, history>>

\* serve == nil: http.NotFound(w, r), logHTTPReq, return
ReqNotFound ==
    /\ Alive /\ pcWaitFn # "exited" /\ pcReq = "notfound"
    /\ wire' = StatusNotFound
    /\ hdrWrites' = hdrWrites + 1
    /\ rqLogged' = StatusNotFound
    /\ pcReq' = "done"
    /\ UNCHANGED <<mainVars, smVars, arrays, handlers, booksWg, serverWg,
                   booksSem, builderVars, mu, bookHandlers, pages, files,
                   sitemapURLS, httpVars, crashed, logVars, expVars, sdVars, txtVars, gapVars,
                   rqURI, rqBody, bodyHTML,
                   rqServe, rqFail, failLogged, invoked, reraised, history>>

\* serve(&cw, r) and logHTTPReq(r, cw.StatusCode, ...): the producer writes
\* its content; or it panics before anything is written; or, a top-level
\* page having sent 200 in serveStart, generation panics; or rendering the
\* template returns an error, which the page producer logs and the
\* top-level producers drop
ReqServe ==
    /\ Alive /\ pcWaitFn # "exited" /\ pcReq = "serve"
    /\ invoked' = TRUE
    /\ \/ /\ wire' = StatusOK
          /\ hdrWrites' = hdrWrites + 1
          /\ rqLogged' = StatusOK
          /\ rqBody' = Emits(rqURI)
          /\ bodyHTML' = IF rqServe = "page" THEN setBodyHTML(rqURI) ELSE bodyHTML
          /\ pcReq' = "done"
          /\ UNCHANGED <<rqFail, failLogged>>
       \/ /\ rqServe # "top"
          /\ rqFail' = "panic"
          /\ pcReq' = "recover"
          /\ UNCHANGED <<wire, hdrWrites, rqLogged, failLogged, rqBody, bodyHTML>>
       \/ /\ rqServe = "top"
          /\ wire' = StatusOK
          /\ hdrWrites' = hdrWrites + 1
          /\ rqFail' = "panic"
          /\ pcReq' = "recover"
          /\ UNCHANGED <<rqLogged, failLogged, rqBody, bodyHTML>>
       \/ /\ rqServe \in {"page", "top"}
          /\ rqFail' = "render"
          /\ failLogged' = (rqServe = "page")
          /\ wire' = StatusOK
          /\ hdrWrites' = hdrWrites + 1
          /\ rqLogged' = StatusOK
          /\ bodyHTML' = IF rqServe = "page" THEN setBodyHTML(rqURI) ELSE bodyHTML
          /\ pcReq' = "done"
          /\ UNCHANGED rqBody
    /\ UNCHANGED <<mainVars, smVars, arrays, handlers, booksWg, serverWg,
                   booksSem, builderVars, mu, bookHandlers, pages, files,
                   sitemapURLS, httpVars, crashed, logVars, expVars, sdVars, txtVars, gapVars,
                   rqURI,
                   rqServe, reraised, history>>

\* the deferred function of mainHandler after a panic: logf, http.Error with
\* 500 (without effect on a status already sent), logHTTPReq, panic(p)
ReqRecover ==
    /\ Alive /\ pcWaitFn # "exited" /\ pcReq = "recover"
    /\ failLogged' = TRUE
    /\ wire' = IF wire = 0 THEN StatusInternalServerError ELSE wire
    /\ hdrWrites' = hdrWrites + 1
    /\ rqLogged' = StatusInternalServerError
    /\ reraised' = TRUE
    /\ pcReq' = "done"
    /\ UNCHANGED <<mainVars, smVars, arrays, handlers, booksWg, serverWg,
                   booksSem, builderVars, mu, bookHandlers, pages, files,
                   sitemapURLS, httpVars, crashed, logVars, expVars, sdVars, txtVars, gapVars,
                   rqURI, rqBody, bodyHTML,
                   rqServe, rqFail, invoked, history>>

\* mainHandler is over; a panic it re-raised ends in the http package, which
\* recovers it for the connection; the server takes the next request
ReqEnd ==
    /\ Alive /\ pcWaitFn # "exited" /\ pcReq = "done"
    /\ history' = Append(history, [status |-> wire, fail |-> rqFail])
    /\ pcReq' = "idle"
    /\ UNCHANGED <<mainVars, smVars, arrays, handlers, booksWg, serverWg,
                   booksSem, builderVars, mu, bookHandlers, pages, files,
                   sitemapURLS, httpVars, crashed, logVars, expVars, sdVars, txtVars, gapVars,
                   rqURI, rqBody, bodyHTML,
                   rqServe, rqFail, wire, hdrWrites, rqLogged, failLogged,
                   invoked, reraised>>

\* ---------------------------------------------------------------- shutdown
\* sig := <-c; go httpSrv.Shutdown(ctx()); the select starts with its timer
SdSignal ==
    /\ Alive /\ pcWaitFn = "signal"
    /\ \E sig \in {"SIGINT", "SIGTERM"} : atReturn' = [returned |-> FALSE, sig |-> sig]
    /\ pcWaitFn' = "select"
    /\ pcShutdown' = "called"
    /\ UNCHANGED <<mainVars, smVars, arrays, handlers, booksWg, serverWg,
                   booksSem, builderVars, mu, bookHandlers, pages, files,
                   sitemapURLS, httpVars, logVars, expVars, reqVars,
                   txtVars, gapVars,
                   crashed, pcListen, accepting, chServerClosed,
                   timerFired>>

\* Shutdown marks the server as shutting down and closes the listeners
SdShutdownClose ==
    /\ Alive /\ pcWaitFn # "exited" /\ pcShutdown = "called"
    /\ accepting' = FALSE
    /\ pcShutdown' = "polling"
    /\ UNCHANGED <<mainVars, smVars, arrays, handlers, booksWg, serverWg,
                   booksSem, builderVars, mu, bookHandlers, pages, files,
                   sitemapURLS, httpVars, logVars, expVars, reqVars,
                   txtVars, gapVars,
                   crashed, pcListen, pcWaitFn, chServerClosed,
                   timerFired, atReturn>>

\* Shutdown returns once no connection is active
SdShutdownIdle ==
    /\ Alive /\ pcWaitFn # "exited" /\ pcShutdown = "polling"
    /\ pcReq = "idle"
    /\ pcShutdown' = "done"
    /\ UNCHANGED <<mainVars, smVars, arrays, handlers, booksWg, serverWg,
                   booksSem, builderVars, mu, bookHandlers, pages, files,
                   sitemapURLS, httpVars, logVars, expVars, reqVars,
                   txtVars, gapVars,
                   crashed, pcListen, pcWaitFn, accepting, chServerClosed, timerFired, atReturn>>

\* ListenAndServe returns ErrServerClosed as soon as the listener is closed;
\* err = nil, must(err), chServerClosed <- true (the channel has room)
SdServeReturns ==
    /\ Alive /\ pcWaitFn # "exited" /\ pcListen = "serving"
    /\ ~accepting
    /\ chServerClosed' = chServerClosed + 1
    /\ pcListen' = "done"
    /\ UNCHANGED <<mainVars, smVars, arrays, handlers, booksWg, serverWg,
                   booksSem, builderVars, mu, bookHandlers, pages, files,
                   sitemapURLS, httpVars, logVars, expVars, reqVars,
                   txtVars, gapVars,
                   crashed, pcWaitFn, pcShutdown, accepting, timerFired,
                   atReturn>>

\* the 5 seconds of time.After are over; Shutdown, started at the same
\* time, has closed the listeners long before
SdTimer ==
    /\ Alive /\ pcWaitFn = "select" /\ ~timerFired
    /\ pcShutdown # "called"
    /\ timerFired' = TRUE
    /\ UNCHANGED <<mainVars, smVars, arrays, handlers, booksWg, serverWg,
                   booksSem, builderVars, mu, bookHandlers, pages, files,
                   sitemapURLS, httpVars, logVars, expVars, reqVars,
                   txtVars, gapVars,
                   crashed, pcListen, pcWaitFn, pcShutdown, accepting,
                   chServerClosed, atReturn>>

\* case <-chServerClosed: the function returns
SdSelectClosed ==
    /\ Alive /\ pcWaitFn = "select"
    /\ chServerClosed > 0
    /\ chServerClosed' = chServerClosed - 1
    /\ pcWaitFn' = "returned"
    /\ atReturn' = [returned |-> TRUE, sig |-> atReturn.sig, how |-> "closed",
                    accepting |-> accepting,
                    inflight |-> IF pcReq = "idle" THEN 0 ELSE 1,
                    elapsed |-> timerFired]
    /\ UNCHANGED <<mainVars, smVars, arrays, handlers, booksWg, serverWg,
                   booksSem, builderVars, mu, bookHandlers, pages, files,
                   sitemapURLS, httpVars, logVars, expVars, reqVars,
                   txtVars, gapVars,
                   crashed, pcListen, pcShutdown, accepting, timerFired>>

\* case <-time.After(5 s): the function returns
SdSelectTimeout ==
    /\ Alive /\ pcWaitFn = "select"
    /\ timerFired
    /\ pcWaitFn' = "returned"
    /\ atReturn' = [returned |-> TRUE, sig |-> atReturn.sig, how |-> "timeout",
                    accepting |-> accepting,
                    inflight |-> IF pcReq = "idle" THEN 0 ELSE 1,
                    elapsed |-> timerFired]
    /\ UNCHANGED <<mainVars, smVars, arrays, handlers, booksWg, serverWg,
                   booksSem, builderVars, mu, bookHandlers, pages, files,
                   sitemapURLS, httpVars, logVars, expVars, reqVars,
                   txtVars, gapVars,
                   crashed, pcListen, pcShutdown, accepting, chServerClosed,
                   timerFired>>

\* previewWebsite returns after the function and the process ends, whatever
\* the other goroutines are doing
SdExit ==
    /\ Alive /\ pcWaitFn = "returned"
    /\ pcWaitFn' = "exited"
    /\ UNCHANGED <<mainVars, smVars, arrays, handlers, booksWg, serverWg,
                   booksSem, builderVars, mu, bookHandlers, pages, files,
                   sitemapURLS, httpVars, logVars, expVars, reqVars,
                   txtVars, gapVars,
                   crashed, pcListen, pcShutdown, accepting,
                   chServerClosed, timerFired, atReturn>>

Next_HTTP ==
    \/ ReqStart
    \/ ReqFind
    \/ ReqNotFound
    \/ ReqServe
    \/ ReqRecover
    \/ ReqEnd
    \/ SdSignal
    \/ SdShutdownClose
    \/ SdShutdownIdle
    \/ SdServeReturns
    \/ SdTimer
    \/ SdSelectClosed
    \/ SdSelectTimeout
    \/ SdExit

Spec_HTTP == Init_HTTP /\ [][Next_HTTP]_vars

\* C16: a request for a URI that no handler resolves is answered with one
\* 404, no producer is called for it, nothing panics, and the server goes on
\* to the next request.
C16_NotFound ==
    /\ (pcReq \in {"notfound", "serve", "recover", "done"} /\ FindHandler(rqURI) = "nil") =>
          /\ pcReq \in {"notfound", "done"}
          /\ ~invoked /\ ~reraised /\ rqFail = "none"
          /\ Alive
    /\ (pcReq = "done" /\ FindHandler(rqURI) = "nil") =>
          /\ wire = StatusNotFound
          /\ hdrWrites = 1
          /\ rqLogged = StatusNotFound
          /\ pcWaitFn # "exited" => ENABLED ReqEnd
    /\ (pcReq = "idle" /\ accepting /\ Len(history) < MaxRequests) => ENABLED ReqStart

C16_Witness ==
    /\ Len(history) = 2
    /\ history[1] = [status |-> StatusNotFound, fail |-> "none"]
    /\ history[2] = [status |-> StatusOK, fail |-> "none"]

\* C17: a request whose handling failed (a panic while resolving or in the
\* producer, or an error rendering the page) is answered with 500, the
\* failure is logged, and a panic is re-raised after the response.
C17_FailureIs500 ==
    (pcReq = "done" /\ rqFail # "none") =>
        /\ wire = StatusInternalServerError
        /\ failLogged
        /\ rqFail = "panic" => reraised


\* ------------------------------------------------------------ sitemap.txt
\* the bytes that occur in the URLs, in increasing order
ByteOrder == "-./0123456789:_abcdefghijklmnopqrstuvwxyz"

RECURSIVE StrLess(_, _)
\* a < b for Go strings: bytewise, a proper prefix first
StrLess(a, b) ==
    IF Len(b) = 0 THEN FALSE
    ELSE IF Len(a) = 0 THEN TRUE
    ELSE LET Rank(c) == CHOOSE i \in 1..Len(ByteOrder) : SubSeq(ByteOrder, i, i) = c
             x == Rank(SubSeq(a, 1, 1))
             y == Rank(SubSeq(b, 1, 1))
         IN IF x # y THEN x < y
            ELSE StrLess(SubSeq(a, 2, Len(a)), SubSeq(b, 2, Len(b)))

RECURSIVE InsertSorted(_, _)
\* seq with x put before the first element greater than x
InsertSorted(x, seq) ==
    IF seq = << >> THEN <<x>>
    ELSE IF StrLess(x, Head(seq)) THEN <<x>> \o seq
    ELSE <<Head(seq)>> \o InsertSorted(x, Tail(seq))

RECURSIVE SortStrings(_)
\* sort.Strings: the same elements in increasing order
SortStrings(seq) ==
    IF seq = << >> THEN << >>
    ELSE InsertSorted(Head(seq), SortStrings(Tail(seq)))

RECURSIVE StringsJoin(_, _)
\* strings.Join
StringsJoin(seq, sep) ==
    IF seq = << >> THEN ""
    ELSE IF Len(seq) = 1 THEN seq[1]
    ELSE seq[1] \o sep \o StringsJoin(Tail(seq), sep)

\* the lines of a text: its parts between "\n"; a text without bytes has none
Lines(txt) ==
    LET nl     == {i \in 1..Len(txt) : SubSeq(txt, i, i) = "\n"}
        starts == {1} \cup {i + 1 : i \in nl}
        start(k) == CHOOSE st \in starts : Cardinality({x \in starts : x < st}) = k - 1
        end(st)  == LET after == {i \in nl : i >= st}
                    IN IF after = {} THEN Len(txt) + 1
                       ELSE CHOOSE i \in after : \A j \in after : i <= j
    IN IF Len(txt) = 0 THEN << >>
       ELSE [k \in 1..Cardinality(starts) |-> SubSeq(txt, start(k), end(start(k)) - 1)]

\* genSitemapHandler is called with some of the books, each with some of the
\* URLs of its builder (the book's root, its pages) in b.sitemapURLS
Init_Sitemap ==
    /\ ServingInit
    /\ bookHandlers = [b \in Books |-> <<"files", "imgdir", "toc">>]
    /\ pages = [b \in Books |-> BuiltPages(b)]
    /\ files = [b \in Books |-> BuiltFiles(b)]
    /\ LogInit
    /\ ExpInit
    /\ ReqInit
    /\ SdInit
    /\ GapInit
    /\ \E S \in SUBSET Books :
         /\ txtBooks = SetToSeq(S)
         /\ sitemapURLS \in [Books -> SUBSET (UNION {BuiltSitemapURLS(b) : b \in Books})]
         /\ \A b \in Books : sitemapURLS[b] \subseteq BuiltSitemapURLS(b) \ {SitemapKey("/")}
         /\ \A b \in Books \ S : sitemapURLS[b] = {}
    /\ pcTxt = "loop"
    /\ txtK = 1
    /\ txtURLs = << >>
    /\ sitemapTxt = ""

\* one turn of the loop over books: addSitemapURL(b, "/"), then every key of
\* b.sitemapURLS appended to urls (the order of the keys does not survive
\* the sort)
TxtBook ==
    /\ pcTxt = "loop" /\ txtK <= Len(txtBooks)
    /\ LET b    == txtBooks[txtK]
           keys == sitemapURLS[b] \cup {SitemapKey("/")}
       IN /\ sitemapURLS' = [sitemapURLS EXCEPT ![b] = keys]
          /\ txtURLs' = txtURLs \o SetToSeq(keys)
    /\ txtK' = txtK + 1
    /\ UNCHANGED <<mainVars, smVars, arrays, handlers, booksWg, serverWg,
                   booksSem, builderVars, mu, bookHandlers, pages, files,
                   httpVars, crashed, logVars, expVars, reqVars, sdVars,
                   gapVars, pcTxt, txtBooks, sitemapTxt>>

\* sort.Strings(urls); h.Add("/sitemap.txt", strings.Join(urls, "\n"))
TxtJoin ==
    /\ pcTxt = "loop" /\ txtK > Len(txtBooks)
    /\ sitemapTxt' = StringsJoin(SortStrings(txtURLs), "\n")
    /\ pcTxt' = "done"
    /\ UNCHANGED <<mainVars, smVars, arrays, handlers, booksWg, serverWg,
                   booksSem, builderVars, mu, bookHandlers, pages, files,
                   httpVars, crashed, logVars, expVars, reqVars, sdVars,
                   gapVars, sitemapURLS, txtBooks, txtK, txtURLs>>

Next_Sitemap ==
    \/ TxtBook
    \/ TxtJoin

Spec_Sitemap == Init_Sitemap /\ [][Next_Sitemap]_vars

\* C19: each line of sitemap.txt is an absolute URL, the lines are in
\* increasing order, and no URL is on two lines.
C19_SortedNoDuplicates ==
    pcTxt = "done" =>
        LET L == Lines(sitemapTxt)
        IN /\ \A i \in 1..Len(L) : isFullURL(L[i])
           /\ \A i, j \in 1..Len(L) : i < j => StrLess(L[i], L[j])

\* C20: for the first two books, one with an article besides its chapter and
\* one with its chapter only, all their URLs registered, the lines of
\* sitemap.txt are the sorted URLs of the pages and of the two book roots.
C20_TwoBooks ==
    (/\ pcTxt = "done"
     /\ txtBooks = <<1, 2>>
     /\ \A b \in {1, 2} : BuiltSitemapURLS(b) \subseteq sitemapURLS[b]) =>
        Lines(sitemapTxt)
          = SortStrings(SetToSeq(
                UNION {{urlJoin(siteBaseURL, URL(b))}
                         \cup {PageCanonnicalURL(PageList(b)[i]) : i \in 1..Len(PageList(b))}
                       : b \in {1, 2}}))

\* C18: when the function returned by StartHTTPServer returns, the server
\* accepts no new connection and either no request is in flight or the grace
\* period has elapsed.
C18_GracefulShutdown ==
    atReturn.returned =>
        /\ ~atReturn.accepting
        /\ atReturn.inflight = 0 \/ atReturn.elapsed

\* ------------------------------------------------- ownership of book state
\* C21: the state of a book (its page map, its file map, its nested
\* handlers, its sitemap URL set), once its builder is launched, changes
\* only in a step of that builder, and not after the builder's exit.
C21_SingleWriter ==
    [][\A b \in Books :
         (/\ Launched(b)
          /\ \/ pages'[b] # pages[b]
             \/ files'[b] # files[b]
             \/ bookHandlers'[b] # bookHandlers[b]
             \/ sitemapURLS'[b] # sitemapURLS[b]) =>
            /\ pcB'[b] # pcB[b]
            /\ ~Exited(b)]_vars

\* -------------------------------------------------- idempotent resolution
\* the requests of the live server while no signal arrives
Next_Resolve ==
    \/ ReqStart
    \/ ReqFind
    \/ ReqNotFound
    \/ ReqServe
    \/ ReqRecover
    \/ ReqEnd

Spec_Resolve == Init_HTTP /\ [][Next_Resolve]_vars

C23_MkdirOnce ==
    [][/\ (pcDir = "run" /\ (dirI' # dirI \/ pcDir' = "panic")) =>
            LET d == FilepathDir(DestPath(expURIs[dirI]))
            IN IF \E k \in 1..Len(mkdirCalls) : mkdirCalls[k] = d
               THEN mkdirCalls' = mkdirCalls
               ELSE mkdirCalls' = Append(mkdirCalls, d)
       /\ (dirI' = dirI /\ pcDir' # "panic") => mkdirCalls' = mkdirCalls
       /\ \A f \in disk' \ disk :
            \E k \in 1..Len(mkdirCalls') : mkdirCalls'[k] = FilepathDir(f.path)]_vars

\* a finished export that wrote several files into one directory and whose
\* files of one directory were not all consecutive
C23_Witness ==
    /\ pcDir = "done"
    /\ Len(mkdirCalls) >= 3
    /\ Len(mkdirCalls) < Len(expURIs)
    /\ \E i, j, k \in 1..Len(expURIs) :
         /\ i < j /\ j < k
         /\ FilepathDir(DestPath(expURIs[i])) = FilepathDir(DestPath(expURIs[k]))
         /\ FilepathDir(DestPath(expURIs[i])) # FilepathDir(DestPath(expURIs[j]))

\* ------------------------------------------- the sitemap handler's place
\* C24: once waitBuildServerDone has returned, the handlers of the server
\* that buildServer returned include the sitemap handler, so that
\* /robots.txt and /sitemap.txt are among the enumerated URIs.
C24_SitemapHandlerServed ==
    pcMain \in {"enum", "enum_read", "export", "exportDir", "exportZip"} =>
        /\ \E i \in 1..server.len : ServerHandler(i) = SitemapH
        /\ SitemapHandlerURLS \subseteq EnumeratedURIs

\* ------------------------------------------------- registration of pages
\* C25: after a builder has exited normally, every chapter and article of
\* its book is registered under its URL ending in ".html", the suffix added
\* only to a URL that lacks it: the URI is among getURLs() and get resolves
\* it to the producer of that page.
C25_PagesRegistered ==
    \A b \in Books :
        pcB[b] = "done" =>
            \A i \in 1..Len(PageList(b)) :
                LET url == PageURL(PageList(b)[i])
                    uri == IF HasSuffix(url, ".html") THEN url ELSE url \o ".html"
                IN /\ uri \in getURLs(b)
                   /\ get(b, uri) = "page"
                   /\ pages[b][uri] = PageList(b)[i].name

\* a finished book with a chapter whose URL lacks the suffix and an article
\* whose URL has it
C25_Witness ==
    \E b \in Books :
        /\ pcB[b] = "done"
        /\ \E i, j \in 1..Len(PageList(b)) :
             /\ ~HasSuffix(PageURL(PageList(b)[i]), ".html")
             /\ HasSuffix(PageURL(PageList(b)[j]), ".html")
             /\ PageURL(PageList(b)[j]) \in DOMAIN pages[b]

\* ------------------------------------------------ the zip exporter's error
\* C26: once an entry of WriteServerFilesToZip has failed no further entry
\* is written and the error stays that of the first failed entry; the
\* function then returns no bytes with that error, and when no entry has
\* failed it returns the archive, all entries and their directory, with a
\* nil error.
C26_ZipErrorLatch ==
    /\ zipErr # 0 => /\ zipFailed = {zipErr}
                     /\ Len(zipEntries) = zipErr - 1
    /\ (pcZip = "done" /\ zipErr # 0) => zipResult = "nil"
    /\ (pcZip = "done" /\ zipErr = 0) =>
          /\ zipResult = "bytes"
          /\ Len(zipEntries) = Len(expURIs)
          /\ zipBuf.files = zipEntries
          /\ Len(zipBuf.directory) = Len(zipEntries)

\* ------------------------------------------------------- Book.GetAllPages
MaxPages == 3

RootPage == 1

\* a call of GetAllPages on a book whose cachedPages is empty and whose
\* pages list up to two of the pages each, themselves and the root page
\* included; the function is past its two early returns:
\* seen := map[*Page]bool{}; pages := []*Page{b.RootPage}; curr := 0
Init_Pages ==
    /\ ServingInit
    /\ BuiltBooks
    /\ LogInit
    /\ ExpInit
    /\ ReqInit
    /\ SdInit
    /\ TxtInit
    /\ pcGap = "loop"
    /\ \E sets \in [1..MaxPages -> {S \in SUBSET (1..MaxPages) : Cardinality(S) <= 2}] :
         pagePages = [p \in 1..MaxPages |-> SetToSeq(sets[p])]
    /\ pageParent = [p \in 1..MaxPages |-> 0]
    /\ allPages = <<RootPage>>
    /\ curr = 0
    /\ seen = {}

\* the loop testing seen before it advances curr
GetAllPagesLoop_SeenBeforeAdvance ==
    /\ pcGap = "loop" /\ curr < Len(allPages)
    /\ LET page == allPages[curr + 1]
       IN \/ /\ page \in seen
             /\ UNCHANGED <<curr, seen, pageParent, allPages>>
          \/ /\ page \notin seen
             /\ curr' = curr + 1
             /\ seen' = seen \cup {page}
             /\ pageParent' = [p \in 1..MaxPages |->
                                 IF \E i \in 1..Len(pagePages[page]) : pagePages[page][i] = p
                                 THEN page ELSE pageParent[p]]
             /\ allPages' = allPages \o pagePages[page]
    /\ UNCHANGED <<mainVars, smVars, arrays, handlers, booksWg, serverWg,
                   booksSem, builderVars, mu, bookHandlers, pages, files,
                   sitemapURLS, httpVars, crashed, logVars, expVars, reqVars,
                   sdVars, txtVars, pcGap, pagePages>>

\* one turn of for curr < len(pages): page := pages[curr]; curr++; a page
\* seen before is skipped; else it is marked, every page of page.Pages gets
\* Parent = page, and page.Pages is appended to pages
GetAllPagesLoop ==
    /\ pcGap = "loop" /\ curr < Len(allPages)
    /\ LET page == allPages[curr + 1]
       IN /\ curr' = curr + 1
          /\ \/ /\ page \in seen
                /\ UNCHANGED <<seen, pageParent, allPages>>
             \/ /\ page \notin seen
                /\ seen' = seen \cup {page}
                /\ pageParent' = [p \in 1..MaxPages |->
                                    IF \E i \in 1..Len(pagePages[page]) : pagePages[page][i] = p
                                    THEN page ELSE pageParent[p]]
                /\ allPages' = allPages \o pagePages[page]
    /\ UNCHANGED <<mainVars, smVars, arrays, handlers, booksWg, serverWg,
                   booksSem, builderVars, mu, bookHandlers, pages, files,
                   sitemapURLS, httpVars, crashed, logVars, expVars, reqVars,
                   sdVars, txtVars, pcGap, pagePages>>

\* curr == len(pages): return pages
GetAllPagesReturn ==
    /\ pcGap = "loop" /\ curr >= Len(allPages)
    /\ pcGap' = "done"
    /\ UNCHANGED <<mainVars, smVars, arrays, handlers, booksWg, serverWg,
                   booksSem, builderVars, mu, bookHandlers, pages, files,
                   sitemapURLS, httpVars, crashed, logVars, expVars, reqVars,
                   sdVars, txtVars, pagePages, pageParent, allPages, curr, seen>>

Next_Pages ==
    \/ GetAllPagesLoop
    \/ GetAllPagesReturn

\* the goroutine that called GetAllPages keeps running
Spec_Pages == Init_Pages /\ [][Next_Pages]_vars /\ WF_vars(Next_Pages)

\* C27: GetAllPages returns for every page structure, pages listed twice or
\* in a cycle included; when the pages below the root form a tree it returns
\* the root first and then every other page of the tree once, and the
\* Parent of each of these is then the page that lists it.
C27_GetAllPages ==
    /\ <>(pcGap = "done")
    /\ [](pcGap = "done" =>
            LET lists(q, p) == \E i \in 1..Len(pagePages[q]) : pagePages[q][i] = p
                inBook     == {allPages[i] : i \in 1..Len(allPages)}
                isTree     == /\ \A q \in inBook : ~lists(q, RootPage)
                              /\ \A p \in inBook \ {RootPage} :
                                    Cardinality({q \in inBook : lists(q, p)}) = 1
            IN /\ allPages[1] = RootPage
               /\ \A q \in inBook : \A p \in 1..MaxPages : lists(q, p) => p \in inBook
               /\ isTree =>
                    /\ \A i, j \in 1..Len(allPages) :
                          allPages[i] = allPages[j] => i = j
                    /\ \A p \in inBook \ {RootPage} :
                          /\ pageParent[p] \in inBook
                          /\ lists(pageParent[p], p))

\* a call has returned for a book in which the root page and another page
\* list each other
C27_Witness ==
    /\ pcGap = "done"
    /\ \E p \in 2..MaxPages :
         /\ \E i \in 1..Len(pagePages[RootPage]) : pagePages[RootPage][i] = p
         /\ \E i \in 1..Len(pagePages[p]) : pagePages[p][i] = RootPage
         /\ Cardinality({i \in 1..Len(allPages) : allPages[i] = p}) >= 1
    /\ Cardinality({i \in 1..Len(allPages) : allPages[i] = RootPage}) = 2

\* ------------------------------------------------------------ convergence
\* genToDir from its start to the return of waitBuildServerDone
Next_Converge ==
    \/ StartExport
    \/ BuildServerFiles
    \/ BuildServerIndex
    \/ BuildServerSpawnSitemap
    \/ genBookHandler
    \/ BuildServerAppendRead
    \/ BuildServerAppendWrite
    \/ BuildServerReturn
    \/ waitBuildServerDone
    \/ waitBooksDone
    \/ genSitemapHandlerBook
    \/ SitemapAppendRead
    \/ SitemapAppendWrite
    \/ SitemapDone
    \/ \E b \in Books : BuilderAcquire(b)
    \/ \E b \in Books : BuilderDownload(b)
    \/ \E b \in Books : BuilderAddHandlerLock(b)
    \/ \E b \in Books : BuilderAddHandler(b)
    \/ \E b \in Books : BuilderCovers(b)
    \/ \E b \in Books : BuilderPagesLock(b)
    \/ \E b \in Books : BuilderAddPage(b)
    \/ \E b \in Books : BuilderPagesUnlock(b)
    \/ \E b \in Books : BuilderDeferLock(b)
    \/ \E b \in Books : BuilderDeferRead(b)
    \/ \E b \in Books : BuilderRelease(b)

\* the Go scheduler runs a goroutine that can run: while the driver, the
\* sitemap goroutine or a builder has a step it can take, one of them takes
\* a step
Spec_Converge == Init /\ [][Next_Converge]_vars /\ WF_vars(Next_Converge)

====
